---- MODULE Spec2Model ----
(***************************************************************************)
(* Kundra content generator: the two HTTP handlers (POST /api/ideas and    *)
(* POST /api/articles), the profile loader and the Claude client.          *)
(*                                                                         *)
(* Strings are sequences of tokens.  A token is an atom of text: a fixed   *)
(* piece of a template, a marker a handler searches for, a file name, a    *)
(* newline.  s.includes(t) is membership of the token t in the sequence.   *)
(* A thrown Error is the record [ok |-> FALSE, message |-> <tokens>].      *)
(***************************************************************************)
EXTENDS Integers, Sequences, FiniteSets, TLC

VARIABLES
    apiKey,      \* process.env.ANTHROPIC_API_KEY is set
    files,       \* data/ directory: file name -> [exists, text]
    pc,          \* "idle", "ideas" | "articles" (awaiting a completion), "done"
    request,     \* the request being handled (or handled last)
    profiles,    \* the ProfileData loaded for this request
    articles,    \* articles pushed so far by the batch loop
    inflight,    \* completion requests sent to the provider, not yet answered
    attempts,    \* attempts[i]: callClaude invocations made for idea i
    reads,       \* readProfile calls made for this request
    sent,        \* completion requests this request has sent to the provider
    outcomes,    \* what the provider answered to them, in the order it did
    response,    \* the HTTP response of the request handled last
    unit,        \* a library function called on its own: argument and result
    frames,      \* the invocations of the handlers that run at the same time
    ui           \* the page in the browser: the state of Home and its fetches

vars == <<apiKey, files, pc, request, profiles, articles, inflight, attempts,
          reads, sent, outcomes, response, unit, frames, ui>>

----------------------------------------------------------------------------
(* Bounds of the model *)

\* request bodies of /api/articles up to this length are drawn freely
MaxFree == 2

\* replies given to parseIdeasFromMarkdown hold up to this many idea blocks
MaxBlocks == 2

\* structure sections given to parseIdeasFromMarkdown hold up to this many lines
MaxSteps == 3

\* free texts given to parseIdeasFromMarkdown hold up to this many tokens
MaxTokens == 3

\* provider responses given to callClaude hold up to this many content blocks
MaxContent == 3

\* the user starts up to this many idea generations on the page
MaxGenerations == 2

\* this many requests are handled at the same time
MaxRequests == 2

\* the batches of requests handled at the same time hold up to this many ideas
MaxBatch == 2

\* program constants
DefaultNumIdeas == 10
MinIdeas == 1
MaxIdeas == 20
MaxArticles == 10
DefaultMaxTokens == 8000
ArticleMaxTokens == 4000

----------------------------------------------------------------------------
(* Strings *)

NL == "\n"

Includes(s, t) == \E i \in 1..Len(s) : s[i] = t

RECURSIVE Join(_, _)
\* Array.prototype.join: the strings of parts with sep between them
Join(parts, sep) ==
    IF parts = <<>> THEN <<>>
    ELSE IF Len(parts) = 1 THEN parts[1]
    ELSE parts[1] \o <<sep>> \o Join(Tail(parts), sep)

----------------------------------------------------------------------------
(* lib/types.ts *)

\* StyleType
StyleTypes == {"allison", "ines", "rita", "blend"}

\* the keys of ProfileData
ProfileKeys == {"adi", "allison", "ines", "rita"}

----------------------------------------------------------------------------
(* lib/profiles.ts *)

\* the four required files, in the order loadAllProfiles reads them
ProfileFiles == <<"adi.txt", "allison.txt", "ines.txt", "rita.txt">>

ProfileFileNames == {ProfileFiles[i] : i \in 1..Len(ProfileFiles)}

ReadProfileMarker == "Failed to read profile"

\* readProfile that returns an empty text for a file that does not exist
readProfileNoThrow(fs, filename) ==
    [ok |-> TRUE, value |-> fs[filename].text, message |-> <<>>]

\* readProfile(filename) on the directory fs: the text, or the thrown Error
readProfile(fs, filename) ==
    IF fs[filename].exists
    THEN [ok |-> TRUE, value |-> fs[filename].text, message |-> <<>>]
    ELSE [ok |-> FALSE, value |-> <<>>,
          message |-> <<ReadProfileMarker, " file: ", filename,
                        ". Make sure the file exists in the data/ directory. Error: ",
                        "ENOENT">>]

\* index in ProfileFiles of the first read that throws, 0 if none does
FirstFailedRead(fs) ==
    LET bad == {i \in 1..Len(ProfileFiles) : ~readProfile(fs, ProfileFiles[i]).ok}
    IN  IF bad = {} THEN 0 ELSE CHOOSE i \in bad : \A j \in bad : i <= j

\* the ProfileData read when the module was first loaded and kept since
loadCachedProfiles(fs) ==
    [ok |-> TRUE,
     value |-> [adi     |-> <<"text of ", "adi.txt">>,
                allison |-> <<"text of ", "allison.txt">>,
                ines    |-> <<"text of ", "ines.txt">>,
                rita    |-> <<"text of ", "rita.txt">>],
     message |-> <<>>,
     reads |-> Len(ProfileFiles)]

\* loadAllProfiles(): the ProfileData, or the Error of the first read that
\* throws; reads is the number of readProfile calls made
loadAllProfiles(fs) ==
    LET m == FirstFailedRead(fs)
    IN  IF m = 0
        THEN [ok |-> TRUE,
              value |-> [adi     |-> readProfile(fs, "adi.txt").value,
                         allison |-> readProfile(fs, "allison.txt").value,
                         ines    |-> readProfile(fs, "ines.txt").value,
                         rita    |-> readProfile(fs, "rita.txt").value],
              message |-> <<>>,
              reads |-> Len(ProfileFiles)]
        ELSE [ok |-> FALSE,
              value |-> [adi |-> <<>>, allison |-> <<>>, ines |-> <<>>, rita |-> <<>>],
              message |-> readProfile(fs, ProfileFiles[m]).message,
              reads |-> m]

\* getSystemPrompt(): the text of data/idea_prompt_system.txt when that file
\* exists, the inline prompt otherwise
getSystemPrompt(override) ==
    IF override THEN <<"text of idea_prompt_system.txt">>
    ELSE <<"You are an elite LinkedIn content strategist ...">>

----------------------------------------------------------------------------
(* lib/claudeClient.ts *)

ApiKeyMarker == "ANTHROPIC_API_KEY"

DefaultModel == "claude-sonnet-4-5-20250929"

\* getClient without the check of the key
getClientUnchecked(key) == [ok |-> TRUE, message |-> <<>>]

\* getClient(): throws when the key is not set
getClient(key) ==
    IF ~key
    THEN [ok |-> FALSE,
          message |-> <<ApiKeyMarker, " is not set in environment variables">>]
    ELSE [ok |-> TRUE, message |-> <<>>]

IsTextBlock(block) == block.type = "text"

RECURSIVE BlockTexts(_)
\* response.content.filter(type === 'text').map(block => block.text)
BlockTexts(content) ==
    IF content = <<>> THEN <<>>
    ELSE (IF IsTextBlock(Head(content)) THEN <<Head(content).text>> ELSE <<>>)
         \o BlockTexts(Tail(content))

\* the text of the first text block alone
firstTextOnly(content) ==
    IF BlockTexts(content) = <<>> THEN <<>> ELSE Head(BlockTexts(content))

\* what callClaude returns for the provider's response content
callClaudeText(content) == Join(BlockTexts(content), NL)

----------------------------------------------------------------------------
(* lib/ideaEngine.ts: prompt construction *)

\* String.prototype.toUpperCase on the style names
ToUpperCase(style) ==
    CASE style = "allison" -> "ALLISON"
      [] style = "ines"    -> "INES"
      [] style = "rita"    -> "RITA"
      [] style = "blend"   -> "BLEND"
      [] OTHER             -> style

\* the styleInstructions table of buildIdeaGenerationPrompt
styleInstructions(style) ==
    CASE style = "blend"   -> <<"Synthesize multiple inspiration styles ...">>
      [] style = "allison" -> <<"Emphasize founder storytelling ...">>
      [] style = "ines"    -> <<"Focus on raw emotional honesty ...">>
      [] style = "rita"    -> <<"Prioritize business-case driven content ...">>
      [] OTHER             -> <<"undefined">>

\* obj[key] of a ProfileData object, interpolated into a template string
ProfileProp(profs, key) ==
    IF key \in DOMAIN profs THEN profs[key] ELSE <<"undefined">>

CriticalNote == "**CRITICAL**: Always filter inspiration through Adi's authentic voice ..."

\* the section of the blend, whatever the style
blendSection(profs, style) ==
    <<"---", "## INSPIRATION PROFILES",
      "Use these profiles as reference ... following the 'blend' strategy:",
      "### Allison's Profile:">> \o profs.allison
    \o <<"### Ines's Profile:">> \o profs.ines
    \o <<"### Rita's Profile:">> \o profs.rita
    \o <<"**STYLE GUIDANCE**: ">> \o styleInstructions("blend")
    \o <<CriticalNote, "---">>

\* the inspirationSection of buildIdeaGenerationPrompt
inspirationSection(profs, style) ==
    IF style # "blend"
    THEN <<"---", "## INSPIRATION PROFILE (", ToUpperCase(style), ")",
           "Use this profile as reference for style and approach:">>
         \o ProfileProp(profs, style)
         \o <<"**STYLE GUIDANCE**: ">> \o styleInstructions(style)
         \o <<CriticalNote, "---">>
    ELSE <<"---", "## INSPIRATION PROFILES",
           "Use these profiles as reference ... following the 'blend' strategy:",
           "### Allison's Profile:">> \o profs.allison
         \o <<"### Ines's Profile:">> \o profs.ines
         \o <<"### Rita's Profile:">> \o profs.rita
         \o <<"**STYLE GUIDANCE**: ">> \o styleInstructions("blend")
         \o <<CriticalNote, "---">>

\* the idea prompt with the default count written into the template
ideaPromptFixedCount(profs, style, numIdeas) ==
    <<"Generate ", ToString(DefaultNumIdeas),
      " sharp, original LinkedIn content ideas for Adi.",
      "## CREATOR PROFILE (Primary Source - This is Adi)">>
    \o profs.adi \o inspirationSection(profs, style)

buildIdeaGenerationPrompt(profs, style, numIdeas) ==
    <<"Generate ", ToString(numIdeas),
      " sharp, original LinkedIn content ideas for Adi.",
      "## CREATOR PROFILE (Primary Source - This is Adi)">>
    \o profs.adi \o inspirationSection(profs, style)
    \o <<"## OUTPUT REQUIREMENTS", "Generate EXACTLY ", ToString(numIdeas),
         " content ideas following this STRICT markdown structure:",
         "## Idea [N]: [Compelling, Specific Title] ... ---",
         "## QUALITY CRITERIA (Non-Negotiable) ...",
         "## FINAL INSTRUCTION ...",
         "Generate ", ToString(numIdeas),
         " ideas now, using strict markdown formatting.">>

RECURSIVE NumberedFrom(_, _)
\* structure.map((step, i) => `${i + 1}. ${step}`), from item number k on
NumberedFrom(steps, k) ==
    IF steps = <<>> THEN <<>>
    ELSE <<(<<ToString(k), ". ">> \o Head(steps))>> \o NumberedFrom(Tail(steps), k + 1)

buildArticleGenerationPrompt(idea, profileText, inspirationText) ==
    <<"Generate a full LinkedIn post (600-1200 words) based on the following content idea.",
      "## CREATOR PROFILE (Adi - Primary Voice Reference)">>
    \o profileText
    \o <<"## INSPIRATION CONTEXT (Optional - for style reference only)">>
    \o inspirationText
    \o <<"## IDEA TO EXPAND", "**Title**: ">> \o idea.title
    \o <<NL, "**Style**: ", idea.style, NL, "**Target Audience**: ">> \o idea.audience
    \o <<NL, "**Core Angle**: ">> \o idea.angle
    \o <<NL, "**Hook Example**: ">> \o idea.hookExample
    \o <<"**Suggested Structure**:", NL>>
    \o Join(NumberedFrom(idea.structure, 1), NL)
    \o <<"## ARTICLE REQUIREMENTS ...", "## OUTPUT FORMAT ...">>

\* the inspiration text of the blend, whatever the idea's style
blendInspirationText(idea, profs) ==
    <<"### Allison's Style:", NL>> \o profs.allison
    \o <<NL, NL, "### Ines's Style:", NL>> \o profs.ines
    \o <<NL, NL, "### Rita's Style:", NL>> \o profs.rita

\* the inspiration text generateArticleFromIdea selects by the idea's style
articleInspirationText(idea, profs) ==
    IF idea.style # "blend"
    THEN ProfileProp(profs, idea.style)
    ELSE <<"### Allison's Style:", NL>> \o profs.allison
         \o <<NL, NL, "### Ines's Style:", NL>> \o profs.ines
         \o <<NL, NL, "### Rita's Style:", NL>> \o profs.rita

ArticleSystemPrompt == <<"You are an expert LinkedIn content writer ...">>

\* callClaude up to its await: the Error getClient throws, or the request
\* passed to client.messages.create
callClaude(systemPrompt, userPrompt, model, maxTokens, key) ==
    IF ~getClient(key).ok
    THEN [ok |-> FALSE, message |-> getClient(key).message]
    ELSE [ok |-> TRUE, message |-> <<>>,
          call |-> [system |-> systemPrompt, user |-> userPrompt,
                    model |-> model, max_tokens |-> maxTokens]]

\* generateIdeas up to its await
generateIdeas(profs, style, numIdeas, key, override) ==
    callClaude(getSystemPrompt(override),
               buildIdeaGenerationPrompt(profs, style, numIdeas),
               DefaultModel, DefaultMaxTokens, key)

\* generateArticleFromIdea up to its await
generateArticleFromIdea(idea, profs, key) ==
    callClaude(ArticleSystemPrompt,
               buildArticleGenerationPrompt(idea, profs.adi,
                                            articleInspirationText(idea, profs)),
               DefaultModel, ArticleMaxTokens, key)

----------------------------------------------------------------------------
(* lib/ideaEngine.ts: parseIdeasFromMarkdown                               *)
(*                                                                         *)
(* The raw response is a sequence of tokens.  The regular expressions are  *)
(* read token by token: \s matches the tokens NL and SP, . matches every   *)
(* token but NL (every token under the s flag), and each literal of a      *)
(* pattern is one token of the class named after it.                       *)

SP == " "
QUOTE == "\""
GT == ">"
RULE == "---"
BOLD == "**"
BOLDCOLON == "**:"

IsSpace(t) == t \in {NL, SP}

\* tokens matching /##\s+Idea\s+\d+:/
IdeaHeadings == {"## Idea 1:", "## Idea 2:", "## Idea 3:", "## Idea 7:", "##  Idea 12:"}

\* tokens matching /\*\*Style\*\*:/i, /\*\*Target Audience\*\*:/i,
\* /\*\*One-Sentence Angle\*\*:/i
StyleLabels == {"**Style**:", "**STYLE**:"}
AudienceLabels == {"**Target Audience**:", "**target audience**:"}
AngleLabels == {"**One-Sentence Angle**:", "**one-sentence angle**:"}

\* tokens matching /###\s*Hook Example/i and /###\s*4-Step Structure/i
HookHeadings == {"### Hook Example", "###Hook example"}
StructureHeadings == {"### 4-Step Structure", "### 4-step structure"}

\* tokens that begin with ###
H3Tokens == HookHeadings \cup StructureHeadings \cup {"### Notes"}

\* tokens matching /\d+\./
StepNumbers == {"1.", "2.", "3.", "4.", "10."}

\* the numbers of the step lines of the template, in order
StepNumbers4 == <<"1.", "2.", "3.", "4.">>

SetMin(S) == CHOOSE x \in S : \A y \in S : x <= y
SetMax(S) == CHOOSE x \in S : \A y \in S : x >= y

\* String.prototype.trim
Trim(s) ==
    LET solid == {i \in 1..Len(s) : ~IsSpace(s[i])}
    IN  IF solid = {} THEN <<>> ELSE SubSeq(s, SetMin(solid), SetMax(solid))

RECURSIVE SplitIdeas(_)
\* rawResponse.split(/##\s+Idea\s+\d+:/)
SplitIdeas(raw) ==
    LET heads == {i \in 1..Len(raw) : raw[i] \in IdeaHeadings}
    IN  IF heads = {} THEN <<raw>>
        ELSE <<SubSeq(raw, 1, SetMin(heads) - 1)>>
             \o SplitIdeas(SubSeq(raw, SetMin(heads) + 1, Len(raw)))

\* the title taken to be the whole section
WholeSection(s) == s

\* section.split('\n')[0]
FirstLine(s) ==
    LET nls == {i \in 1..Len(s) : s[i] = NL}
    IN  IF nls = {} THEN s ELSE SubSeq(s, 1, SetMin(nls) - 1)

\* the last position of the line that position r of s is on
LineEnd(s, r) ==
    SetMax({e \in r..Len(s) : \A j \in r..e : s[j] # NL})

\* the positions of s from position q on that a greedy \s* can stop at:
\* everything between q and the stop is whitespace
SpaceStops(s, q) == {r \in q..(Len(s) + 1) : \A j \in q..(r - 1) : IsSpace(s[j])}

\* section.match(/LABEL\s*(.+)/i) for the label tokens labels: the set of
\* positions where the pattern matches
LabelMatches(s, labels) ==
    {p \in 1..Len(s) :
        /\ s[p] \in labels
        /\ \E r \in SpaceStops(s, p + 1) : r <= Len(s) /\ s[r] # NL}

\* capture group 1 of the match at position p
LabelCapture(s, p) ==
    LET r == SetMax({x \in SpaceStops(s, p + 1) : x <= Len(s) /\ s[x] # NL})
    IN  SubSeq(s, r, LineEnd(s, r))

\* [matched, group 1] of section.match(/LABEL\s*(.+)/i)
LabelMatch(s, labels) ==
    IF LabelMatches(s, labels) = {} THEN [matched |-> FALSE, group |-> <<>>]
    ELSE [matched |-> TRUE,
          group |-> LabelCapture(s, SetMin(LabelMatches(s, labels)))]

\* a greedy \s* from position t on can stop before the end of s or before a
\* token that begins with ###: the lookahead (?=###|$)
AtH3OrEnd(s, t) ==
    \E u \in SpaceStops(s, t) : u = Len(s) + 1 \/ (u <= Len(s) /\ s[u] \in H3Tokens)

\* "?\s*(?=###|$) matches after position e
HookTailOK(s, e) ==
    \/ AtH3OrEnd(s, e + 1)
    \/ e + 1 <= Len(s) /\ s[e + 1] = QUOTE /\ AtH3OrEnd(s, e + 2)

\* the position of the > that ###\s*Hook Example\s*\n\s*> reaches from the
\* heading at position p: whitespace holding a newline, then >; 0 if none
HookQuoteMark(s, p) ==
    LET g == SetMax(SpaceStops(s, p + 1))
    IN  IF /\ g <= Len(s)
           /\ s[g] = GT
           /\ \E j \in (p + 1)..(g - 1) : s[j] = NL
        THEN g ELSE 0

\* where group 1 of the hook pattern can start after the > at position g, in
\* the order the pattern prefers them: the greatest is tried first
HookStarts(s, g) ==
    LET stops == {x \in SpaceStops(s, g + 1) : x <= Len(s)}
    IN  stops \cup {x + 1 : x \in {y \in stops : s[y] = QUOTE /\ y + 1 <= Len(s)}}

\* the heading positions where the hook pattern matches
HookMatches(s) ==
    {p \in 1..Len(s) :
        /\ s[p] \in HookHeadings
        /\ HookQuoteMark(s, p) # 0
        /\ HookStarts(s, HookQuoteMark(s, p)) # {}}

\* [matched, group 1] of
\* section.match(/###\s*Hook Example\s*\n\s*>\s*"?(.+?)"?\s*(?=###|$)/is)
HookMatch(s) ==
    IF HookMatches(s) = {} THEN [matched |-> FALSE, group |-> <<>>]
    ELSE LET p == SetMin(HookMatches(s))
             b == SetMax(HookStarts(s, HookQuoteMark(s, p)))
             e == SetMin({x \in b..Len(s) : HookTailOK(s, x)})
         IN  [matched |-> TRUE, group |-> SubSeq(s, b, e)]

\* where group 1 of the structure pattern can start after the heading at
\* position p: right after a newline of the whitespace that follows it
StructureStarts(s, p) ==
    {l + 1 : l \in {x \in SpaceStops(s, p + 1) :
                        x <= Len(s) /\ s[x] = NL /\ x + 1 <= Len(s)}}

StructureMatches(s) ==
    {p \in 1..Len(s) : s[p] \in StructureHeadings /\ StructureStarts(s, p) # {}}

\* [matched, group 1] of
\* section.match(/###\s*4-Step Structure\s*\n([\s\S]+?)(?=---|$)/i)
StructureMatch(s) ==
    IF StructureMatches(s) = {} THEN [matched |-> FALSE, group |-> <<>>]
    ELSE LET p == SetMin(StructureMatches(s))
             c == SetMax(StructureStarts(s, p))
             e == SetMin({x \in c..Len(s) : x = Len(s) \/ s[x + 1] = RULE})
         IN  [matched |-> TRUE, group |-> SubSeq(s, c, e)]

\* the lookahead (?=\n\d+\.|\n*$) at position u of t
StepLookahead(t, u) ==
    \/ u + 1 <= Len(t) /\ t[u] = NL /\ t[u + 1] \in StepNumbers
    \/ \A j \in u..Len(t) : t[j] = NL

\* the token at position o opens a step name: ** does, and so do the first
\* two characters of **:, which leave the colon as the start of the name
OpensName(t, o) == t[o] \in {BOLD, BOLDCOLON}

\* the part of the step name that the opening token itself holds
NameHead(t, o) == IF t[o] = BOLDCOLON THEN <<":">> ELSE <<>>

\* the position of the **: that closes the step name opened at position o
\* (lazy: the first one that leaves a name of one character at least and
\* room for a description), 0 if none
StepNameEnd(t, o) ==
    LET closes == {m \in (o + 1)..Len(t) :
                      /\ t[m] = BOLDCOLON
                      /\ m < Len(t)
                      /\ Len(NameHead(t, o)) + (m - o - 1) >= 1}
    IN  IF closes = {} THEN 0 ELSE SetMin(closes)

\* the position of the ** that \d+\.\s*\*\* reaches from the number at p
StepNameOpen(t, p) ==
    LET o == SetMax(SpaceStops(t, p + 1))
    IN  IF o <= Len(t) /\ OpensName(t, o) THEN o ELSE 0

\* the positions from `from` on where the step pattern matches
StepMatches(t, from) ==
    {p \in from..Len(t) :
        /\ t[p] \in StepNumbers
        /\ StepNameOpen(t, p) # 0
        /\ StepNameEnd(t, StepNameOpen(t, p)) # 0}

RECURSIVE StepsFrom(_, _)
\* for (const match of structureText.matchAll(
\*      /\d+\.\s*\*\*(.+?)\*\*:\s*(.+?)(?=\n\d+\.|\n*$)/gs)) structure.push(...)
StepsFrom(t, from) ==
    IF StepMatches(t, from) = {} THEN <<>>
    ELSE LET p == SetMin(StepMatches(t, from))
             o == StepNameOpen(t, p)
             m == StepNameEnd(t, o)
             b == SetMax({x \in SpaceStops(t, m + 1) : x <= Len(t)})
             e == SetMin({x \in b..Len(t) : StepLookahead(t, x + 1)})
         IN  <<(<<BOLD>> \o NameHead(t, o) \o SubSeq(t, o + 1, m - 1) \o <<"**: ">>
                 \o Trim(SubSeq(t, b, e)))>>
             \o StepsFrom(t, e + 1)

\* the voice names a token holds once lower-cased: String.prototype.includes
\* looks for a substring, so "Business" holds "ines"
NamesIn(tok) ==
    CASE tok \in {"Allison", "ALLISON", "allison"} -> {"allison"}
      [] tok \in {"Ines", "INES", "ines", "Business"} -> {"ines"}
      [] tok \in {"Rita", "RITA", "rita"} -> {"rita"}
      [] OTHER -> {}

\* styleStr.toLowerCase().includes(name)
StyleIncludes(styleStr, name) ==
    \E i \in 1..Len(styleStr) : name \in NamesIn(styleStr[i])

\* lines 255-263: the style of the idea from the style match
ParsedStyle(styleMatch) ==
    IF ~styleMatch.matched THEN "blend"
    ELSE IF StyleIncludes(styleMatch.group, "allison") THEN "allison"
    ELSE IF StyleIncludes(styleMatch.group, "ines") THEN "ines"
    ELSE IF StyleIncludes(styleMatch.group, "rita") THEN "rita"
    ELSE "blend"

\* the structure array built with match in place of matchAll
FirstStepOnly(structureMatch) ==
    IF structureMatch.matched /\ StepsFrom(structureMatch.group, 1) # <<>>
    THEN <<Head(StepsFrom(structureMatch.group, 1))>>
    ELSE <<>>

\* the structure array built from the structure match
ParsedStructure(structureMatch) ==
    IF structureMatch.matched THEN StepsFrom(structureMatch.group, 1) ELSE <<>>

\* the id of the first idea, whatever the section
firstIdeaId(i) == <<"idea-", "1">>

\* id: `idea-${i}` for the loop index i
IdeaId(i) == <<"idea-", ToString(i)>>

\* the body of the loop of parseIdeasFromMarkdown for the trimmed section
\* number i: the Idea pushed
ParseSection(section, i) ==
    LET audienceMatch == LabelMatch(section, AudienceLabels)
        angleMatch == LabelMatch(section, AngleLabels)
        hookMatch == HookMatch(section)
        structure == ParsedStructure(StructureMatch(section))
    IN  [id |-> IdeaId(i),
         title |-> Trim(FirstLine(section)),
         style |-> ParsedStyle(LabelMatch(section, StyleLabels)),
         audience |-> IF audienceMatch.matched THEN Trim(audienceMatch.group)
                      ELSE <<"General audience">>,
         angle |-> IF angleMatch.matched THEN Trim(angleMatch.group) ELSE <<>>,
         hookExample |-> IF hookMatch.matched THEN Trim(hookMatch.group) ELSE <<>>,
         structure |-> IF Len(structure) > 0 THEN structure
                       ELSE <<(<<"No structure provided">>)>>]

\* the loop started at section 0: the text before the first heading is
\* parsed as well
parseAllSections(rawResponse) ==
    LET ideaSections == SplitIdeas(rawResponse)
    IN  [i \in 1..Len(ideaSections) |-> ParseSection(Trim(ideaSections[i]), i - 1)]

parseIdeasFromMarkdown(rawResponse) ==
    LET ideaSections == SplitIdeas(rawResponse)
    IN  [i \in 1..(Len(ideaSections) - 1) |->
            ParseSection(Trim(ideaSections[i + 1]), i)]

----------------------------------------------------------------------------
(* app/api/ideas/route.ts and app/api/articles/route.ts: responses *)

NoProfiles == [adi |-> <<>>, allison |-> <<>>, ines |-> <<>>, rita |-> <<>>]

NoResponse ==
    [status |-> 0, kind |-> "none", error |-> <<>>, details |-> <<>>,
     ideas |-> <<>>, articles |-> <<>>]

\* NextResponse.json({ error, details }, { status })
ErrorResponse(status, error, details) ==
    [status |-> status, kind |-> "error", error |-> error, details |-> details,
     ideas |-> <<>>, articles |-> <<>>]

\* NextResponse.json({ ideas })
IdeasResponse(ideas) ==
    [status |-> 200, kind |-> "ideas", error |-> <<>>, details |-> <<>>,
     ideas |-> ideas, articles |-> <<>>]

\* NextResponse.json({ articles })
ArticlesResponse(arts) ==
    [status |-> 200, kind |-> "articles", error |-> <<>>, details |-> <<>>,
     ideas |-> <<>>, articles |-> arts]

InvalidStyleError == <<"Invalid style. Must be one of: allison, ines, rita, blend">>
InvalidCountError == <<"Number of ideas must be between 1 and 20">>
NoIdeasError == <<"Must provide at least one idea in the ideas array">>
TooManyIdeasError == <<"Cannot generate more than 10 articles at once">>
ProfilesMissingError ==
    <<"Profile files not found. Make sure all profile .txt files are in the data/ directory.">>
ApiKeyMissingError ==
    <<"Anthropic API key not configured. Set ", ApiKeyMarker, " in .env.local">>
IdeasFailedError == <<"Failed to generate ideas">>
ArticlesFailedError == <<"Failed to generate articles">>

\* the catch block of a handler, for a caught Error with this message;
\* generic is the handler's generic error text
CatchBlock(message, generic) ==
    IF Includes(message, ReadProfileMarker)
    THEN ErrorResponse(500, ProfilesMissingError, message)
    ELSE IF Includes(message, ApiKeyMarker)
    THEN ErrorResponse(500, ApiKeyMissingError, message)
    ELSE ErrorResponse(500, generic, message)

\* a catch block of POST /api/ideas that drops the caught message
CatchIdeasNoDetail(message) ==
    CatchBlock(<<"Unknown error">>, IdeasFailedError)

\* the catch block of POST /api/ideas
CatchIdeas(message) == CatchBlock(message, IdeasFailedError)

\* the catch block of POST /api/articles
CatchArticles(message) == CatchBlock(message, ArticlesFailedError)

----------------------------------------------------------------------------
(* POST /api/ideas *)

\* An optional field of a JSON body is <<>> when omitted and <<v>> when given.

\* body.style || 'blend'
StyleOrDefault(body) ==
    IF body.style = <<>> \/ body.style[1] = "" THEN "blend" ELSE body.style[1]

\* body.n || 10
NumIdeasOrDefault(body) ==
    IF body.n = <<>> \/ body.n[1] = 0 THEN DefaultNumIdeas ELSE body.n[1]

\* ['allison', 'ines', 'rita', 'blend'].includes(style)
StyleAllowed(style) == style \in {"allison", "ines", "rita", "blend"}

\* !(numIdeas < 1 || numIdeas > 20)
CountAllowed(numIdeas) == ~(numIdeas < MinIdeas \/ numIdeas > MaxIdeas)

\* What a handler has done when it first awaits the provider or responds:
\* the response (NoResponse while it awaits), the profiles loaded, the
\* completion requests sent, the readProfile calls, the callClaude calls and
\* the articles pushed.
Outcome(resp, profs, calls, nreads, att, arts) ==
    [response |-> resp, profiles |-> profs, calls |-> calls, reads |-> nreads,
     attempts |-> att, articles |-> arts]

\* POST /api/ideas from the parsed body to the await of the completion
ideasPOST(body, fs, key, override) ==
    LET style == StyleOrDefault(body)
        numIdeas == NumIdeasOrDefault(body)
        loaded == loadAllProfiles(fs)
        gen == generateIdeas(loaded.value, style, numIdeas, key, override)
    IN  IF ~StyleAllowed(style)
        THEN Outcome(ErrorResponse(400, InvalidStyleError, <<>>), NoProfiles, {}, 0, <<>>, <<>>)
        ELSE IF ~CountAllowed(numIdeas)
        THEN Outcome(ErrorResponse(400, InvalidCountError, <<>>), NoProfiles, {}, 0, <<>>, <<>>)
        ELSE IF ~loaded.ok
        THEN Outcome(CatchIdeas(loaded.message), NoProfiles, {}, loaded.reads, <<>>, <<>>)
        ELSE IF ~gen.ok
        THEN Outcome(CatchIdeas(gen.message), loaded.value, {}, loaded.reads, <<1>>, <<>>)
        ELSE Outcome(NoResponse, loaded.value,
                     {[idx |-> 1, request |-> gen.call]}, loaded.reads, <<1>>, <<>>)

----------------------------------------------------------------------------
(* POST /api/articles *)

\* an article record that takes its title from the generated text
GeneratedArticleRetitled(idea, articleText) ==
    [ideaId |-> idea.id, title |-> <<Head(articleText)>>, text |-> articleText]

\* an error placeholder without the caught message
ErrorArticleNoDetail(idea, message) ==
    [ideaId |-> idea.id, title |-> idea.title,
     text |-> <<"Error generating article: ", "Unknown error">>]

\* a loop that starts the completion of idea i and goes on without awaiting
NoAwait(i) == FALSE

\* articles.push({ ideaId, title, text }) after a completion
GeneratedArticle(idea, articleText) ==
    [ideaId |-> idea.id, title |-> idea.title, text |-> articleText]

\* the error placeholder pushed by the inner catch
ErrorArticle(idea, message) ==
    [ideaId |-> idea.id, title |-> idea.title,
     text |-> <<"Error generating article: ">> \o message]

\* the loop awaits the completion of idea i before it goes on
Awaits(i) == TRUE

\* the loop leaves out the idea after idea i
skipIdea(i) == i + 2

\* the idea the loop takes after idea i
NextIdea(i) == i + 1

RECURSIVE BatchLoop(_, _, _, _, _, _)
\* for (const idea of body.ideas) from idea i on, until the loop awaits a
\* completion or ends: the articles pushed, the callClaude calls counted and
\* the completion requests sent
BatchLoop(ideas, i, arts, att, profs, key) ==
    IF i > Len(ideas) THEN [articles |-> arts, attempts |-> att, calls |-> {}]
    ELSE LET gen == generateArticleFromIdea(ideas[i], profs, key)
             counted == [att EXCEPT ![i] = @ + 1]
         IN  IF ~gen.ok
             THEN BatchLoop(ideas, NextIdea(i),
                            Append(arts, ErrorArticle(ideas[i], gen.message)),
                            counted, profs, key)
             ELSE IF Awaits(i)
             THEN [articles |-> arts, attempts |-> counted,
                   calls |-> {[idx |-> i, request |-> gen.call]}]
             ELSE LET rest == BatchLoop(ideas, NextIdea(i), arts, counted, profs, key)
                  IN  [rest EXCEPT !.calls = @ \cup {[idx |-> i, request |-> gen.call]}]

\* !body.ideas || !Array.isArray(body.ideas) || body.ideas.length === 0
IdeasFieldRejected(body) ==
    \/ ~body.truthy
    \/ body.kind # "array"
    \/ Len(body.items) = 0

\* a length check that already rejects 10 ideas
TooManyIdeasFromTen(body) == Len(body.items) >= MaxArticles

\* body.ideas.length > 10
TooManyIdeas(body) == Len(body.items) > MaxArticles

\* POST /api/articles from the parsed body to the first await of a completion
articlesPOST(body, fs, key) ==
    LET loaded == loadAllProfiles(fs)
        n == Len(body.items)
        run == BatchLoop(body.items, 1, <<>>, [i \in 1..n |-> 0], loaded.value, key)
    IN  IF IdeasFieldRejected(body)
        THEN Outcome(ErrorResponse(400, NoIdeasError, <<>>), NoProfiles, {}, 0, <<>>, <<>>)
        ELSE IF TooManyIdeas(body)
        THEN Outcome(ErrorResponse(400, TooManyIdeasError, <<>>), NoProfiles, {}, 0, <<>>, <<>>)
        ELSE IF ~loaded.ok
        THEN Outcome(CatchArticles(loaded.message), NoProfiles, {}, loaded.reads,
                     [i \in 1..n |-> 0], <<>>)
        ELSE Outcome(IF run.calls = {} THEN ArticlesResponse(run.articles)
                     ELSE NoResponse,
                     loaded.value, run.calls, loaded.reads, run.attempts,
                     run.articles)

----------------------------------------------------------------------------
(* The environment: request bodies, the data/ directory, provider replies *)

\* the text of a profile file that exists
FileText(name) == <<"text of ", name>>

\* the state of the data/ directory where the files in missing do not exist
Directory(missing) ==
    [name \in ProfileFileNames |->
        IF name \in missing THEN [exists |-> FALSE, text |-> <<>>]
        ELSE [exists |-> TRUE, text |-> FileText(name)]]

\* bodies of POST /api/ideas: { style?, n? }
StyleInputs == {<<>>} \cup {<<v>> : v \in {"allison", "ines", "rita", "blend", "unknown", ""}}
CountInputs == {<<>>} \cup {<<v>> : v \in {-1, 0, 1, 10, 20, 21, 25}}
IdeasBodies == [style : StyleInputs, n : CountInputs]

\* an Idea as the client sends it back
ClientIdea(id, title, style) ==
    [id |-> <<"idea-", id>>, title |-> <<title>>, style |-> style,
     audience |-> <<"HR leaders">>, angle |-> <<"Leave is a system test">>,
     hookExample |-> <<"Your best people leave twice.">>,
     structure |-> <<(<<"**Setup**: the cost">>), (<<"**Shift**: the system">>)>>]

IdeaPool ==
    <<ClientIdea("1", "Leave as strategy", "rita"),
      ClientIdea("2", "The handover gap", "blend"),
      ClientIdea("3", "What nobody says", "adi"),
      ClientIdea("1", "Return plans", "unknown")>>

RECURSIVE SeqsOfLen(_, _)
SeqsOfLen(S, n) ==
    IF n = 0 THEN {<<>>}
    ELSE {Append(q, x) : q \in SeqsOfLen(S, n - 1), x \in S}

\* the ideas arrays: every array of at most MaxFree pool ideas, and for each
\* greater length up to one past the limit the array that cycles the pool
FreeArrays ==
    UNION {SeqsOfLen({IdeaPool[i] : i \in 1..Len(IdeaPool)}, n) : n \in 0..MaxFree}
CycleArray(n) == [i \in 1..n |-> IdeaPool[((i - 1) % Len(IdeaPool)) + 1]]
LongArrays == {CycleArray(n) : n \in (MaxFree + 1)..(MaxArticles + 1)}

\* bodies of POST /api/articles: the ideas field is missing, is a value that
\* is no array (truthy or falsy), or is an array
ArticlesBodies ==
    {[kind |-> "missing", truthy |-> FALSE, items |-> <<>>],
     [kind |-> "other", truthy |-> FALSE, items |-> <<>>],
     [kind |-> "other", truthy |-> TRUE, items |-> <<>>]}
    \cup {[kind |-> "array", truthy |-> TRUE, items |-> a] : a \in FreeArrays \cup LongArrays}

\* content blocks of a provider response
TextBlock(text) == [type |-> "text", text |-> text]
ToolUseBlock == [type |-> "tool_use", text |-> <<>>]

\* messages of the Errors client.messages.create rejects with
ProviderErrors == {<<"429 rate_limit_error">>, <<"Connection error.">>}

ArticleReplyA == <<TextBlock(<<"Most leave plans fail quietly.", NL, "What would you change?">>)>>
ArticleReplyB ==
    <<TextBlock(<<"Part one.">>), ToolUseBlock, TextBlock(<<"Part two.">>)>>

\* what the provider may answer to a completion request of a batch of n
\* ideas: batches longer than MaxFree get one reply and one error
ArticleReplies(n) == IF n <= MaxFree THEN {ArticleReplyA, ArticleReplyB} ELSE {ArticleReplyA}
ArticleErrors(n) ==
    IF n <= MaxFree THEN ProviderErrors ELSE {<<"429 rate_limit_error">>}


\* one idea block of a reply that follows the template of the idea prompt
IdeaBlock(heading, title, styleValue, audience) ==
    <<heading, SP, title, NL, NL,
      "**Style**:", SP, styleValue, NL,
      "**Target Audience**:", SP, audience, NL,
      "**One-Sentence Angle**:", SP, "Leave", SP, "is", SP, "a", SP, "stress", SP, "test", NL, NL,
      "### Hook Example", NL,
      GT, SP, QUOTE, "Your", SP, "best", SP, "people", SP, "leave", SP, "twice.", QUOTE, NL, NL,
      "### 4-Step Structure", NL,
      "1.", SP, BOLD, "Setup", BOLDCOLON, SP, "the", SP, "cost", NL,
      "2.", SP, BOLD, "Shift", BOLDCOLON, SP, "the", SP, "system", NL,
      "3.", SP, BOLD, "Proof", BOLDCOLON, SP, "the", SP, "data", NL,
      "4.", SP, BOLD, "Ask", BOLDCOLON, SP, "the", SP, "question", NL, NL,
      RULE, NL, NL>>

BlockOne == IdeaBlock("## Idea 1:", "Leave as strategy", "Rita", "HR leaders")
BlockTwo == IdeaBlock("## Idea 2:", "The handover gap", "ALLISON", "Founders")

\* a block without style, audience, angle and hook, whose second step is
\* not bold
BareBlock ==
    <<"## Idea 7:", SP, "Return plans", NL, NL,
      "### 4-Step Structure", NL,
      "1.", SP, BOLD, "Setup", BOLDCOLON, SP, "the", SP, "cost", NL,
      "2.", SP, "Shift:", SP, "the", SP, "system", NL,
      "3.", SP, BOLD, "Proof", BOLDCOLON, SP, "the", SP, "data">>

\* what the provider may answer to the completion request of /api/ideas
IdeaReplies ==
    {<<TextBlock(<<"Here are your ideas:", NL, NL>> \o BlockOne \o BlockTwo)>>,
     <<TextBlock(BlockOne), ToolUseBlock, TextBlock(BlockTwo)>>,
     <<TextBlock(BareBlock)>>,
     <<TextBlock(<<"I", SP, "cannot", SP, "help", SP, "with", SP, "that.">>)>>,
     <<>>}

----------------------------------------------------------------------------
(* The handlers as a state machine *)

NoRequest == [endpoint |-> "none", body |-> <<>>]

\* no library function is called on its own
NoUnit == [fn |-> "none", returned |-> FALSE]

\* no invocations run side by side
NoFrames == <<>>

\* Home after its first render: the useState initial values (null is <<>>),
\* nothing fetched.  generation counts the idea generations started; ideasOf
\* and articlesOf tell which generation the ideas shown came from and from
\* which generation's ideas the articles shown were made (0: none).
InitialPage ==
    [style |-> "blend", numIdeas |-> 10, ideas |-> <<>>, selectedIdeaIds |-> {},
     loadingIdeas |-> FALSE, ideasError |-> <<>>,
     articles |-> <<>>, loadingArticles |-> FALSE, articlesError |-> <<>>,
     copiedArticleId |-> <<>>,
     fetches |-> {}, generation |-> 0, ideasOf |-> 0, articlesOf |-> 0]

\* no request is being handled: nothing of a request is kept
Idle ==
    /\ pc = "idle"
    /\ request = NoRequest
    /\ profiles = NoProfiles
    /\ articles = <<>>
    /\ inflight = {}
    /\ attempts = <<>>
    /\ reads = 0
    /\ sent = 0
    /\ outcomes = <<>>
    /\ response = NoResponse

Init ==
    /\ apiKey \in BOOLEAN
    /\ files \in {Directory(missing) : missing \in SUBSET ProfileFileNames}
    /\ Idle
    /\ unit = NoUnit
    /\ frames = NoFrames
    /\ ui = InitialPage

\* a handler runs from the parsed body to its first await or its response
Handle(endpoint, body, out) ==
    /\ request' = [endpoint |-> endpoint, body |-> body]
    /\ profiles' = out.profiles
    /\ articles' = out.articles
    /\ inflight' = out.calls
    /\ attempts' = out.attempts
    /\ reads' = out.reads
    /\ sent' = Cardinality(out.calls)
    /\ outcomes' = <<>>
    /\ response' = out.response
    /\ pc' = IF out.calls = {} THEN "done" ELSE endpoint
    /\ UNCHANGED <<ui, frames, unit, apiKey, files>>

\* a request arrives at POST /api/ideas
IdeasRequest ==
    /\ pc = "idle"
    /\ \E body \in IdeasBodies, override \in BOOLEAN :
          Handle("ideas", body, ideasPOST(body, files, apiKey, override))

\* a request arrives at POST /api/articles
ArticlesRequest ==
    /\ pc = "idle"
    /\ \E body \in ArticlesBodies :
          Handle("articles", body, articlesPOST(body, files, apiKey))

\* the completion of /api/ideas resolves: parse and respond
IdeasReturn ==
    /\ pc = "ideas"
    /\ \E c \in inflight, content \in IdeaReplies :
          /\ inflight' = inflight \ {c}
          /\ outcomes' = Append(outcomes,
                                [idx |-> c.idx, ok |-> TRUE, text |-> callClaudeText(content)])
          /\ response' = IdeasResponse(parseIdeasFromMarkdown(callClaudeText(content)))
    /\ pc' = "done"
    /\ UNCHANGED <<ui, frames, unit, apiKey, files, request, profiles, articles, attempts, reads, sent>>

\* the completion of /api/ideas rejects and the request is sent once more
IdeasFailRetry ==
    /\ pc = "ideas"
    /\ sent < 2
    /\ \E c \in inflight, message \in ProviderErrors :
          outcomes' = Append(outcomes, [idx |-> c.idx, ok |-> FALSE, text |-> message])
    /\ sent' = sent + 1
    /\ UNCHANGED <<ui, frames, unit, apiKey, files, pc, request, profiles, articles, inflight,
                   attempts, reads, response>>

\* the completion of /api/ideas rejects: the catch block responds
IdeasFail ==
    /\ pc = "ideas"
    /\ \E c \in inflight, message \in ProviderErrors :
          /\ inflight' = inflight \ {c}
          /\ outcomes' = Append(outcomes, [idx |-> c.idx, ok |-> FALSE, text |-> message])
          /\ response' = CatchIdeas(message)
    /\ pc' = "done"
    /\ UNCHANGED <<ui, frames, unit, apiKey, files, request, profiles, articles, attempts, reads, sent>>

\* the batch loop after the completion c has settled with the article art
\* pushed for it: on to the next idea, and the response when the loop ends
Resume(c, art, outcome) ==
    LET run == BatchLoop(request.body.items, NextIdea(c.idx), Append(articles, art),
                         attempts, profiles, apiKey)
        left == (inflight \ {c}) \cup run.calls
    IN  /\ articles' = run.articles
        /\ attempts' = run.attempts
        /\ inflight' = left
        /\ sent' = sent + Cardinality(run.calls)
        /\ outcomes' = Append(outcomes, outcome)
        /\ response' = IF left = {} THEN ArticlesResponse(run.articles) ELSE NoResponse
        /\ pc' = IF left = {} THEN "done" ELSE "articles"
        /\ UNCHANGED <<ui, frames, unit, apiKey, files, request, profiles, reads>>

\* a completion of the batch resolves
ArticleReturn ==
    /\ pc = "articles"
    /\ \E c \in inflight, content \in ArticleReplies(Len(request.body.items)) :
          Resume(c,
                 GeneratedArticle(request.body.items[c.idx], callClaudeText(content)),
                 [idx |-> c.idx, ok |-> TRUE, text |-> callClaudeText(content)])

\* a completion of the batch rejects: the inner catch pushes a placeholder
ArticleFail ==
    /\ pc = "articles"
    /\ \E c \in inflight, message \in ArticleErrors(Len(request.body.items)) :
          Resume(c,
                 ErrorArticle(request.body.items[c.idx], message),
                 [idx |-> c.idx, ok |-> FALSE, text |-> message])

\* the response is delivered and the handler's frame is dropped: the server
\* keeps nothing of the request
Deliver ==
    /\ pc = "done"
    /\ pc' = "idle"
    /\ request' = NoRequest
    /\ profiles' = NoProfiles
    /\ articles' = <<>>
    /\ inflight' = {}
    /\ attempts' = <<>>
    /\ reads' = 0
    /\ sent' = 0
    /\ outcomes' = <<>>
    /\ response' = NoResponse
    /\ UNCHANGED <<ui, frames, unit, apiKey, files>>

Next ==
    \/ IdeasRequest
    \/ ArticlesRequest
    \/ IdeasReturn
    \/ IdeasFail
    \/ ArticleReturn
    \/ ArticleFail
    \/ Deliver

Spec == Init /\ [][Next]_vars

\* the handlers where every awaited completion of a batch settles: the
\* promise of client.messages.create resolves or rejects in the end
FairSpec == Spec /\ WF_vars(ArticleReturn \/ ArticleFail)

----------------------------------------------------------------------------
(* The handlers while the files of data/ are edited *)

\* the text of a profile file after it has been edited
EditedText(name) == <<"text of ", name, " as edited">>

\* the files that are edited while the server runs
EditedFiles == {"adi.txt", "rita.txt"}

\* a profile file is rewritten on disk: readFileSync returns the new text
\* from then on
EditProfile ==
    /\ \E name \in EditedFiles :
          /\ files[name].exists
          /\ files[name].text = FileText(name)
          /\ files' = [files EXCEPT ![name].text = EditedText(name)]
    /\ UNCHANGED <<ui, frames, unit, apiKey, pc, request, profiles, articles, inflight,
                   attempts, reads, sent, outcomes, response>>

EditNext ==
    \/ Next
    \/ EditProfile

EditSpec == Init /\ [][EditNext]_vars

----------------------------------------------------------------------------
(* The library functions called on their own: inputs *)

\* a text of words separated by single spaces
Words(ws) == Join([i \in 1..Len(ws) |-> <<ws[i]>>], SP)

\* one step line of the template: N. **[Step Name]**: [What it covers]
BoldStep(number, name, covers) ==
    <<number, SP, BOLD>> \o name \o <<BOLDCOLON, SP>> \o covers

\* a step line whose name is not bold
PlainStep(number, name, covers) ==
    <<number, SP>> \o name \o <<":", SP>> \o covers

\* the step lines of a block, one per line; a step is [bold, name, covers]
StepLines(steps) ==
    Join([i \in 1..Len(steps) |->
             IF steps[i].bold
             THEN BoldStep(StepNumbers4[i], steps[i].name, steps[i].covers)
             ELSE PlainStep(StepNumbers4[i], steps[i].name, steps[i].covers)],
         NL)

\* one idea block written after the template of buildIdeaGenerationPrompt
TemplateBlock(b) ==
    <<b.heading, SP>> \o b.title \o <<NL, NL, "**Style**:", SP, b.styleValue, NL,
      "**Target Audience**:", SP>> \o b.audience
    \o <<NL, "**One-Sentence Angle**:", SP>> \o b.angle
    \o <<NL, NL, "### Hook Example", NL, GT, SP, QUOTE>> \o b.hook
    \o <<QUOTE, NL, NL, "### 4-Step Structure", NL>> \o StepLines(b.steps)
    \o <<NL, NL, RULE, NL, NL>>

Step(bold, name, covers) == [bold |-> bold, name |-> name, covers |-> covers]

FourSteps ==
    <<Step(TRUE, <<"Setup">>, Words(<<"the", "cost">>)),
      Step(TRUE, Words(<<"The", "shift">>), Words(<<"the", "system">>)),
      Step(TRUE, <<"Proof">>, Words(<<"the", "data">>)),
      Step(TRUE, <<"Ask">>, Words(<<"one", "question">>))>>

OtherSteps ==
    <<Step(TRUE, <<"Scene">>, Words(<<"a", "Monday">>)),
      Step(TRUE, <<"Turn">>, Words(<<"what", "broke">>)),
      Step(TRUE, <<"Lesson">>, Words(<<"who", "pays">>)),
      Step(TRUE, <<"Close">>, Words(<<"your", "move">>))>>

Block(heading, title, styleValue, audience, angle, hook, steps) ==
    [heading |-> heading, title |-> title, styleValue |-> styleValue,
     audience |-> audience, angle |-> angle, hook |-> hook, steps |-> steps]

\* blocks that follow the template, with each of the four style values
TemplateBlocks ==
    {Block("## Idea 1:", Words(<<"Leave", "as", "strategy">>), "Rita",
           Words(<<"HR", "leaders">>), Words(<<"Leave", "is", "a", "stress", "test">>),
           Words(<<"Your", "best", "people", "leave", "twice.">>), FourSteps),
     Block("## Idea 2:", Words(<<"The", "handover", "gap">>), "ALLISON",
           <<"Founders">>, Words(<<"Nobody", "owns", "the", "handover">>),
           Words(<<"She", "said", QUOTE, "no", QUOTE, "twice.">>), OtherSteps),
     Block("## Idea 3:", <<"Return", SP, "plans">>, "ines",
           Words(<<"New", "parents">>), Words(<<"Day", "one", "decides">>),
           <<"Welcome", SP, "back?">>, FourSteps),
     Block("##  Idea 12:", <<"Quiet", SP, "costs">>, "Blend",
           Words(<<"Team", "leads">>), Words(<<"Silence", "is", "expensive">>),
           Words(<<"Nobody", "asked.">>), OtherSteps),
     Block("## Idea 7:", Words(<<"What", "nobody", "says">>), "Allison",
           <<"CFOs">>, Words(<<"Count", "the", "returns">>),
           Words(<<"It", "costs", "more.">>), FourSteps)}

\* what a reply may hold before the first idea block
Preambles == {<<>>, <<"Here", SP, "are", SP, "your", SP, "ideas:", NL, NL>>}

\* the reply that holds the preamble and then the blocks in order
RenderReply(preamble, blocks) ==
    preamble \o Join([i \in 1..Len(blocks) |-> TemplateBlock(blocks[i])], NL)

\* replies of up to MaxBlocks template blocks
TemplateReplies ==
    {[kind |-> "template", preamble |-> pre, blocks |-> bs,
      text |-> RenderReply(pre, bs)] :
        pre \in Preambles,
        bs \in UNION {SeqsOfLen(TemplateBlocks, k) : k \in 0..MaxBlocks}}

\* the first block of the template with its style line replaced by line
StyleBlock(line) ==
    <<"## Idea 1:", SP, "Leave", SP, "as", SP, "strategy", NL, NL>> \o line
    \o <<"**Target Audience**:", SP, "HR", SP, "leaders", NL,
         "**One-Sentence Angle**:", SP, "Leave", SP, "is", SP, "a", SP, "test", NL, NL,
         "### Hook Example", NL, GT, SP, QUOTE, "Your", SP, "move.", QUOTE, NL, NL,
         "### 4-Step Structure", NL>> \o StepLines(FourSteps) \o <<NL, NL, RULE, NL, NL>>

\* values of the style field: the voice names in three spellings, the blend,
\* and values that name no voice
StyleValues ==
    {"ALLISON", "allison", "Allison", "INES", "ines", "Ines", "RITA", "rita", "Rita",
     "Blend", "blend", "Maya", "Business", "Bold"}

\* replies of one block: without a style line, and with each style value
\* under either spelling of the label
StyleReplies ==
    {[kind |-> "style", hasStyle |-> FALSE, styleValue |-> "", text |-> StyleBlock(<<>>)]}
    \cup {[kind |-> "style", hasStyle |-> TRUE, styleValue |-> v,
           text |-> StyleBlock(<<label, SP, v, NL>>)] :
             v \in StyleValues, label \in StyleLabels}

\* the step lines a structure section is drawn from
StepPool ==
    {Step(TRUE, <<"Setup">>, Words(<<"the", "cost">>)),
     Step(FALSE, <<"Shift">>, Words(<<"the", "system">>)),
     Step(TRUE, Words(<<"The", "proof">>), Words(<<"the", "data">>))}

\* replies of one block whose structure section holds up to MaxSteps lines
StepReplies ==
    {[kind |-> "steps", steps |-> st,
      text |-> TemplateBlock(Block("## Idea 3:", <<"Return", SP, "plans">>, "Ines",
                                   <<"CFOs">>, <<"Count">>, <<"Welcome">>, st))] :
        st \in UNION {SeqsOfLen(StepPool, k) : k \in 0..MaxSteps}}

\* the parts of an idea block after its title line
BlockParts == {"style", "audience", "angle", "hook", "structure"}

\* a block of the template that holds the parts in present and no others
PartsBlock(present) ==
    <<"## Idea 1:", SP, "Leave", SP, "as", SP, "strategy", NL, NL>>
    \o (IF "style" \in present THEN <<"**Style**:", SP, "Rita", NL>> ELSE <<>>)
    \o (IF "audience" \in present
        THEN <<"**Target Audience**:", SP, "HR", SP, "leaders", NL>> ELSE <<>>)
    \o (IF "angle" \in present
        THEN <<"**One-Sentence Angle**:", SP, "Leave", SP, "is", SP, "a", SP, "test", NL>>
        ELSE <<>>)
    \o <<NL>>
    \o (IF "hook" \in present
        THEN <<"### Hook Example", NL, GT, SP, QUOTE, "Your", SP, "move.", QUOTE, NL, NL>>
        ELSE <<>>)
    \o (IF "structure" \in present
        THEN <<"### 4-Step Structure", NL>> \o StepLines(FourSteps) \o <<NL, NL>>
        ELSE <<>>)
    \o <<RULE, NL, NL>>

\* the block of the template that follows a block of parts in a reply
NextBlock ==
    Block("## Idea 2:", Words(<<"The", "handover", "gap">>), "ALLISON",
          <<"Founders">>, Words(<<"Nobody", "owns", "the", "handover">>),
          Words(<<"It", "costs", "more.">>), OtherSteps)

\* replies of two blocks: one with any of the parts, then a whole one
PartsReplies ==
    {[kind |-> "parts", present |-> present,
      text |-> PartsBlock(present) \o TemplateBlock(NextBlock)] :
        present \in SUBSET BlockParts}

\* the text s without its token number i
Without(s, i) == SubSeq(s, 1, i - 1) \o SubSeq(s, i + 1, Len(s))

\* replies of one template block that has lost one token
DamagedReplies ==
    UNION {{[kind |-> "damaged", text |-> Without(TemplateBlock(b), i)] :
               i \in 1..Len(TemplateBlock(b))} :
           b \in {x \in TemplateBlocks : x.styleValue \in {"Rita", "ALLISON"}}}

\* the tokens free texts are made of
ParseAlphabet ==
    {"## Idea 1:", SP, NL, "word", "**Style**:", "Allison", "### Hook Example", GT,
     "### 4-Step Structure", "1.", BOLD, BOLDCOLON}

\* every text of up to MaxTokens tokens
TokenReplies ==
    {[kind |-> "tokens", text |-> t] :
        t \in UNION {SeqsOfLen(ParseAlphabet, k) : k \in 0..MaxTokens}}

\* the texts parseIdeasFromMarkdown is called on
ParseInputs ==
    TemplateReplies \cup StyleReplies \cup StepReplies \cup DamagedReplies
    \cup TokenReplies \cup PartsReplies

\* the ProfileData the prompt builders are given: the files of the data/
\* directory as loaded, and four texts of several tokens
ProfileSets ==
    {loadAllProfiles(Directory({})).value,
     [adi     |-> <<"Adi:", SP, "mission", NL, "data">>,
      allison |-> <<"Allison:", SP, "founder", NL, "stories">>,
      ines    |-> <<"Ines:", SP, "raw", NL, "honesty">>,
      rita    |-> <<"Rita:", SP, "business", NL, "case">>]}

\* the arguments of buildIdeaGenerationPrompt: every style, every count of
\* the accepted range
IdeaPromptInputs ==
    [profs : ProfileSets, style : StyleTypes, numIdeas : MinIdeas..MaxIdeas]

\* the arguments of generateArticleFromIdea
ArticleInputs ==
    [profs : ProfileSets,
     idea : {ClientIdea(id, title, style) :
                id \in {"1", "2"}, title \in {"Leave as strategy", "Quiet costs"},
                style \in StyleTypes}]

\* the content arrays of provider responses: up to MaxContent blocks
ContentInputs ==
    UNION {SeqsOfLen({TextBlock(<<"Part one.">>), TextBlock(<<"Part", SP, "two.">>),
                      TextBlock(<<>>), ToolUseBlock}, k) : k \in 0..MaxContent}

\* a call of fn on arg, yet to run
Call(fn, made, arg) ==
    [fn |-> fn, made |-> made, arg |-> arg, returned |-> FALSE, result |-> <<>>]

Direct == [kind |-> "direct"]

\* the calls of library functions made on their own
UnitCalls ==
    {Call("parseIdeasFromMarkdown", r, r.text) : r \in ParseInputs}
    \cup {Call("buildIdeaGenerationPrompt", Direct, a) : a \in IdeaPromptInputs}
    \cup {Call("generateArticleFromIdea", Direct, a) : a \in ArticleInputs}
    \cup {Call("callClaude", Direct, content) : content \in ContentInputs}

----------------------------------------------------------------------------
(* The library functions called on their own: one call, from its argument  *)
(* to its result, with no request being handled                            *)

handlerVars ==
    <<apiKey, files, pc, request, profiles, articles, inflight, attempts,
      reads, sent, outcomes, response>>

LibInit ==
    /\ apiKey = TRUE
    /\ files = Directory({})
    /\ Idle
    /\ unit \in UnitCalls
    /\ frames = NoFrames
    /\ ui = InitialPage

\* the call returns value
Return(value) ==
    /\ unit' = [unit EXCEPT !.returned = TRUE, !.result = value]
    /\ UNCHANGED <<handlerVars, frames, ui>>

\* the call of fn is yet to run
Called(fn) == unit.fn = fn /\ ~unit.returned

ParseIdeas ==
    /\ Called("parseIdeasFromMarkdown")
    /\ Return(parseIdeasFromMarkdown(unit.arg))

BuildIdeaPrompt ==
    /\ Called("buildIdeaGenerationPrompt")
    /\ Return(buildIdeaGenerationPrompt(unit.arg.profs, unit.arg.style, unit.arg.numIdeas))

\* generateArticleFromIdea up to the request it passes to the provider
GenerateArticle ==
    /\ Called("generateArticleFromIdea")
    /\ Return(generateArticleFromIdea(unit.arg.idea, unit.arg.profs, apiKey).call)

\* callClaude from the provider's response to the text it returns
CallClaudeReturns ==
    /\ Called("callClaude")
    /\ Return(callClaudeText(unit.arg))

LibNext ==
    \/ ParseIdeas
    \/ BuildIdeaPrompt
    \/ GenerateArticle
    \/ CallClaudeReturns

LibSpec == LibInit /\ [][LibNext]_vars

----------------------------------------------------------------------------
(* Requests handled at the same time.  Node runs one handler at a time and  *)
(* switches at an await: an invocation runs from its start to its first    *)
(* await, and from the settling of a completion to the next await or to    *)
(* its response.  Each invocation has its own frame: the constants and the *)
(* parameters of POST.  The environment variable and the data/ directory   *)
(* are the only things the invocations have in common.                     *)

\* the frame of an invocation that has not started
IdleFrame ==
    [pc |-> "idle", request |-> NoRequest, profiles |-> NoProfiles, articles |-> <<>>,
     inflight |-> {}, attempts |-> <<>>, reads |-> 0, sent |-> 0, outcomes |-> <<>>,
     response |-> NoResponse, overlap |-> FALSE]

\* another invocation is between its start and its response
OthersRunning(fs, r) == \E o \in DOMAIN fs \ {r} : fs[o].pc \in {"ideas", "articles"}

\* the frame of a handler run from the parsed body to its first await or
\* its response
StartFrame(endpoint, body, out, overlap) ==
    [pc |-> IF out.calls = {} THEN "done" ELSE endpoint,
     request |-> [endpoint |-> endpoint, body |-> body],
     profiles |-> out.profiles, articles |-> out.articles, inflight |-> out.calls,
     attempts |-> out.attempts, reads |-> out.reads, sent |-> Cardinality(out.calls),
     outcomes |-> <<>>, response |-> out.response, overlap |-> overlap]

\* the frame of generateIdeas after its completion has settled
IdeasSettled(fr, c, outcome, resp) ==
    [fr EXCEPT !.inflight = fr.inflight \ {c},
               !.outcomes = Append(fr.outcomes, outcome),
               !.response = resp,
               !.pc = "done"]

\* the articles array of one array shared by the invocations
firstArticles(fs, r) == fs[1].articles

\* const articles: GeneratedArticle[] = [] of the invocation r
ownArticles(fs, r) == fs[r].articles

\* the frame of the batch loop of invocation r after the completion c has
\* settled with the article art pushed for it
ArticleSettled(fs, r, c, art, outcome) ==
    LET fr == fs[r]
        run == BatchLoop(fr.request.body.items, NextIdea(c.idx),
                         Append(ownArticles(fs, r), art), fr.attempts, fr.profiles, apiKey)
        left == (fr.inflight \ {c}) \cup run.calls
    IN  [fr EXCEPT !.articles = run.articles,
                   !.attempts = run.attempts,
                   !.inflight = left,
                   !.sent = fr.sent + Cardinality(run.calls),
                   !.outcomes = Append(fr.outcomes, outcome),
                   !.response = IF left = {} THEN ArticlesResponse(run.articles)
                                ELSE NoResponse,
                   !.pc = IF left = {} THEN "done" ELSE "articles"]

\* the bodies sent to /api/ideas side by side
ConcIdeasBodies ==
    {[style |-> <<"blend">>, n |-> <<1>>], [style |-> <<"rita">>, n |-> <<>>],
     [style |-> <<"unknown">>, n |-> <<1>>]}

\* the bodies invocation r gets at /api/articles: its own idea of the pool,
\* up to MaxBatch times
ConcArticlesBodies(r) ==
    {[kind |-> "array", truthy |-> TRUE,
      items |-> [i \in 1..k |-> IdeaPool[((r - 1) % Len(IdeaPool)) + 1]]] :
        k \in 0..MaxBatch}

\* provider replies and errors of the requests handled side by side
ConcIdeaReplies ==
    {<<TextBlock(<<"## Idea 1:", SP, "Return plans", NL, "**Style**:", SP, "Rita">>)>>,
     <<TextBlock(<<"No", SP, "ideas.">>), ToolUseBlock>>}
ConcArticleReplies == {ArticleReplyB}
ConcErrors == {<<"429 rate_limit_error">>}

ConcInit ==
    /\ apiKey \in BOOLEAN
    /\ files \in {Directory({}), Directory({"ines.txt"})}
    /\ Idle
    /\ unit = NoUnit
    /\ frames = [r \in 1..MaxRequests |-> IdleFrame]
    /\ ui = InitialPage

\* invocation r moves to the frame fr; nothing else changes
Advance(r, fr) ==
    /\ frames' = [frames EXCEPT ![r] = fr]
    /\ UNCHANGED <<handlerVars, unit, ui>>

ConcIdeasRequest ==
    \E r \in DOMAIN frames :
        /\ frames[r].pc = "idle"
        /\ \E body \in ConcIdeasBodies :
              Advance(r, StartFrame("ideas", body, ideasPOST(body, files, apiKey, FALSE),
                                 OthersRunning(frames, r)))

ConcArticlesRequest ==
    \E r \in DOMAIN frames :
        /\ frames[r].pc = "idle"
        /\ \E body \in ConcArticlesBodies(r) :
              Advance(r, StartFrame("articles", body, articlesPOST(body, files, apiKey),
                                 OthersRunning(frames, r)))

ConcIdeasReturn ==
    \E r \in DOMAIN frames :
        /\ frames[r].pc = "ideas"
        /\ \E c \in frames[r].inflight, content \in ConcIdeaReplies :
              Advance(r, IdeasSettled(frames[r], c,
                                   [idx |-> c.idx, ok |-> TRUE,
                                    text |-> callClaudeText(content)],
                                   IdeasResponse(parseIdeasFromMarkdown(
                                                     callClaudeText(content)))))

ConcIdeasFail ==
    \E r \in DOMAIN frames :
        /\ frames[r].pc = "ideas"
        /\ \E c \in frames[r].inflight, message \in ConcErrors :
              Advance(r, IdeasSettled(frames[r], c,
                                   [idx |-> c.idx, ok |-> FALSE, text |-> message],
                                   CatchIdeas(message)))

ConcArticleReturn ==
    \E r \in DOMAIN frames :
        /\ frames[r].pc = "articles"
        /\ \E c \in frames[r].inflight, content \in ConcArticleReplies :
              Advance(r, ArticleSettled(frames, r, c,
                                     GeneratedArticle(frames[r].request.body.items[c.idx],
                                                      callClaudeText(content)),
                                     [idx |-> c.idx, ok |-> TRUE,
                                      text |-> callClaudeText(content)]))

ConcArticleFail ==
    \E r \in DOMAIN frames :
        /\ frames[r].pc = "articles"
        /\ \E c \in frames[r].inflight, message \in ConcErrors :
              Advance(r, ArticleSettled(frames, r, c,
                                     ErrorArticle(frames[r].request.body.items[c.idx],
                                                  message),
                                     [idx |-> c.idx, ok |-> FALSE, text |-> message]))

ConcNext ==
    \/ ConcIdeasRequest
    \/ ConcArticlesRequest
    \/ ConcIdeasReturn
    \/ ConcIdeasFail
    \/ ConcArticleReturn
    \/ ConcArticleFail

ConcSpec == ConcInit /\ [][ConcNext]_vars

----------------------------------------------------------------------------
(* app/page.tsx: the page Home *)

\* the options of the style select
StyleOptions == <<"blend", "allison", "ines", "rita">>

\* what the user types into the number input
NumberInputs == {"1", "25", "0", ""}

\* parseInt(e.target.value): <<>> is NaN
ParseInt(text) ==
    CASE text = "1" -> <<1>>
      [] text = "25" -> <<25>>
      [] text = "0" -> <<0>>
      [] OTHER -> <<>>

\* parseInt(e.target.value) || 10
ParseIntOrTen(text) ==
    IF ParseInt(text) = <<>> \/ ParseInt(text)[1] = 0 THEN 10 ELSE ParseInt(text)[1]

\* a fetch of the page that has not settled
Fetch(endpoint, body, generation) ==
    [endpoint |-> endpoint, body |-> body, generation |-> generation]

\* the fetches to endpoint that are in flight
Fetches(page, endpoint) == {f \in page.fetches : f.endpoint = endpoint}

\* data.ideas of the 200 responses of /api/ideas the page may get
PageIdeaLists ==
    {parseIdeasFromMarkdown(<<"## Idea 1:", SP, "Leave as strategy", NL,
                              "**Style**:", SP, "Rita", NL, RULE, NL,
                              "## Idea 2:", SP, "The handover gap", NL>>),
     parseIdeasFromMarkdown(<<"## Idea 1:", SP, "Return plans", NL>>),
     parseIdeasFromMarkdown(<<"No", SP, "ideas.">>)}

\* error.error of the responses that are not ok, and the message of a fetch
\* that rejects
PageIdeasErrors == {IdeasFailedError, InvalidCountError, <<"Failed to fetch">>}
PageArticlesErrors == {ArticlesFailedError, <<"Failed to fetch">>}

\* data.articles of the 200 response to a batch: one article per idea sent
PageArticles(ideas) ==
    [i \in 1..Len(ideas) |-> GeneratedArticle(ideas[i], <<"Most leave plans fail quietly.">>)]

\* a Generate Ideas button that is never disabled
ideasButtonEnabled(page) == FALSE

\* disabled={loadingIdeas} of the Generate Ideas button
IdeasButtonDisabled(page) == page.loadingIdeas

\* disabled={selectedIdeaIds.size === 0 || loadingArticles}
ArticlesButtonDisabled(page) ==
    Cardinality(page.selectedIdeaIds) = 0 \/ page.loadingArticles

\* ideas.filter((idea) => selectedIdeaIds.has(idea.id))
selectedIdeas(page) ==
    SelectSeq(page.ideas, LAMBDA idea : idea.id \in page.selectedIdeaIds)

\* the page changes to next; the server is left alone
Render(next) ==
    /\ ui' = next
    /\ UNCHANGED <<handlerVars, unit, frames>>

\* onChange of the style select
setStyle ==
    /\ ~ui.loadingIdeas
    /\ \E i \in 1..Len(StyleOptions) :
          /\ StyleOptions[i] # ui.style
          /\ Render([ui EXCEPT !.style = StyleOptions[i]])

\* onChange of the number input
setNumIdeas ==
    /\ ~ui.loadingIdeas
    /\ \E text \in NumberInputs :
          /\ ParseIntOrTen(text) # ui.numIdeas
          /\ Render([ui EXCEPT !.numIdeas = ParseIntOrTen(text)])

\* handleGenerateIdeas up to its await of fetch('/api/ideas')
handleGenerateIdeas ==
    /\ ~IdeasButtonDisabled(ui)
    /\ ui.generation < MaxGenerations
    /\ Render([ui EXCEPT
                 !.loadingIdeas = TRUE,
                 !.ideasError = <<>>,
                 !.ideas = <<>>,
                 !.selectedIdeaIds = {},
                 !.articles = <<>>,
                 !.fetches = @ \cup {Fetch("ideas", [style |-> ui.style, n |-> ui.numIdeas],
                                            ui.generation + 1)},
                 !.generation = @ + 1,
                 !.ideasOf = 0,
                 !.articlesOf = 0])

\* the fetch of /api/ideas resolves with a response that is ok:
\* setIdeas(data.ideas), then the finally block
IdeasFetched ==
    \E f \in Fetches(ui, "ideas"), ideas \in PageIdeaLists :
        Render([ui EXCEPT
                  !.ideas = ideas,
                  !.ideasOf = IF ideas = <<>> THEN 0 ELSE f.generation,
                  !.loadingIdeas = FALSE,
                  !.fetches = @ \ {f}])

\* the response is not ok or the fetch rejects: the catch block, then the
\* finally block
IdeasFetchFailed ==
    \E f \in Fetches(ui, "ideas"), message \in PageIdeasErrors :
        Render([ui EXCEPT
                  !.ideasError = <<message>>,
                  !.loadingIdeas = FALSE,
                  !.fetches = @ \ {f}])

\* toggleIdeaSelection(idea.id), from the card of an idea that is shown
toggleIdeaSelection ==
    \E i \in 1..Len(ui.ideas) :
        LET ideaId == ui.ideas[i].id
        IN  Render([ui EXCEPT
                      !.selectedIdeaIds =
                          IF ideaId \in @ THEN @ \ {ideaId} ELSE @ \cup {ideaId}])

\* handleGenerateArticles up to its await of fetch('/api/articles'); the
\* button is rendered with the ideas
handleGenerateArticles ==
    /\ Len(ui.ideas) > 0
    /\ ~ArticlesButtonDisabled(ui)
    /\ IF Len(selectedIdeas(ui)) = 0
       THEN Render(ui)
       ELSE Render([ui EXCEPT
                      !.loadingArticles = TRUE,
                      !.articlesError = <<>>,
                      !.articles = <<>>,
                      !.articlesOf = 0,
                      !.fetches = @ \cup {Fetch("articles", [ideas |-> selectedIdeas(ui)],
                                                 ui.ideasOf)}])

\* the fetch of /api/articles resolves with a response that is ok:
\* setArticles(data.articles), then the finally block
ArticlesFetched ==
    \E f \in Fetches(ui, "articles") :
        Render([ui EXCEPT
                  !.articles = PageArticles(f.body.ideas),
                  !.articlesOf = f.generation,
                  !.loadingArticles = FALSE,
                  !.fetches = @ \ {f}])

\* the response is not ok or the fetch rejects
ArticlesFetchFailed ==
    \E f \in Fetches(ui, "articles"), message \in PageArticlesErrors :
        Render([ui EXCEPT
                  !.articlesError = <<message>>,
                  !.loadingArticles = FALSE,
                  !.fetches = @ \ {f}])

\* handleCopyArticle(article.ideaId, article.text) of an article shown, the
\* clipboard taking the text
handleCopyArticle ==
    \E i \in 1..Len(ui.articles) :
        /\ ui.copiedArticleId # <<ui.articles[i].ideaId>>
        /\ Render([ui EXCEPT !.copiedArticleId = <<ui.articles[i].ideaId>>])

\* setTimeout(() => setCopiedArticleId(null), 2000) fires
CopiedTimeout ==
    /\ ui.copiedArticleId # <<>>
    /\ Render([ui EXCEPT !.copiedArticleId = <<>>])

PageInit ==
    /\ apiKey = TRUE
    /\ files = Directory({})
    /\ Idle
    /\ unit = NoUnit
    /\ frames = NoFrames
    /\ ui = InitialPage

PageNext ==
    \/ setStyle
    \/ setNumIdeas
    \/ handleGenerateIdeas
    \/ IdeasFetched
    \/ IdeasFetchFailed
    \/ toggleIdeaSelection
    \/ handleGenerateArticles
    \/ ArticlesFetched
    \/ ArticlesFetchFailed
    \/ handleCopyArticle
    \/ CopiedTimeout

PageSpec == PageInit /\ [][PageNext]_vars

----------------------------------------------------------------------------
(* Properties *)

\* the request is at this endpoint and has been taken up by its handler
Handling(endpoint) == pc # "idle" /\ request.endpoint = endpoint

\* the handler of this endpoint has returned its response
Responded(endpoint) == pc = "done" /\ request.endpoint = endpoint

AllProfilesExist == \A name \in ProfileFileNames : files[name].exists

\* the request made no readProfile call and no callClaude call, and sent
\* nothing to the provider
NothingReadOrSent ==
    /\ reads = 0
    /\ sent = 0
    /\ inflight = {}
    /\ outcomes = <<>>
    /\ \A i \in 1..Len(attempts) : attempts[i] = 0

\* msg occurs in text
Contains(text, msg) ==
    \E i \in 1..(Len(text) - Len(msg) + 1) : SubSeq(text, i, i + Len(msg) - 1) = msg

\* an /api/ideas body as the interface describes it: style omitted or one
\* of the four, n omitted or in [1, 20]
ValidIdeasBody(body) ==
    /\ body.style = <<>> \/ body.style[1] \in StyleTypes
    /\ body.n = <<>> \/ body.n[1] \in 1..20

\* an /api/articles body as the interface describes it: 1 to 10 ideas
ValidArticlesBody(body) ==
    body.kind = "array" /\ Len(body.items) \in 1..10

\* C1: a request to /api/ideas whose n lies outside [1, 20] is answered
\* with status 400, and nothing is read or sent for it.
C1_CountOutOfRangeRejected ==
    (Handling("ideas") /\ request.body.n # <<>> /\ request.body.n[1] \notin 1..20)
        => (pc = "done" /\ response.status = 400 /\ NothingReadOrSent)

\* C2: a request to /api/ideas whose style is a value other than allison,
\* ines, rita or blend is answered with status 400 and the invalid-style
\* message, and nothing is read or sent for it.
C2_UnknownStyleRejected ==
    (Handling("ideas") /\ request.body.style # <<>>
        /\ request.body.style[1] \notin {"allison", "ines", "rita", "blend"})
        => (/\ pc = "done"
            /\ response.status = 400
            /\ response.error = InvalidStyleError
            /\ NothingReadOrSent)

\* C3: a request to /api/articles whose ideas field is missing, not an
\* array, empty or longer than 10 is answered with status 400, and nothing
\* is read or sent for it; a request with 1 to 10 ideas passes validation
\* (it is not answered with 400 and the profiles are read).
C3_ArticlesValidation ==
    Handling("articles") =>
        IF ValidArticlesBody(request.body)
        THEN response.status # 400 /\ reads >= 1
        ELSE pc = "done" /\ response.status = 400 /\ NothingReadOrSent

\* an oversized request has been rejected
C3_Witness ==
    /\ Responded("articles")
    /\ request.body.kind = "array"
    /\ Len(request.body.items) = 11
    /\ response.status = 400

\* C4: for an accepted request with k ideas whose profiles were loaded, and
\* every pattern of completion successes and failures, the response holds
\* exactly k article records, the i-th with the id and the title of the
\* i-th idea of the request.
C4_OneArticlePerIdeaInOrder ==
    (Responded("articles") /\ ValidArticlesBody(request.body) /\ AllProfilesExist)
        => (/\ response.kind = "articles"
            /\ Len(response.articles) = Len(request.body.items)
            /\ \A i \in 1..Len(request.body.items) :
                  /\ response.articles[i].ideaId = request.body.items[i].id
                  /\ response.articles[i].title = request.body.items[i].title)

\* a full batch of 10 has been answered after successes and failures
C4_Witness ==
    /\ Responded("articles")
    /\ Len(request.body.items) = 10
    /\ Len(response.articles) = 10
    /\ \E i, j \in 1..Len(outcomes) : outcomes[i].ok /\ ~outcomes[j].ok

\* C5: when the completion for idea i fails, record i is a placeholder that
\* contains the error's message; every record j whose completion succeeded
\* has exactly the text the completion returned; the response is a success.
C5_FailureIsolation ==
    (Responded("articles") /\ outcomes # <<>>)
        => (/\ response.status = 200
            /\ response.kind = "articles"
            /\ \A k \in 1..Len(outcomes) :
                  LET o == outcomes[k]
                      rec == response.articles[o.idx]
                  IN  IF o.ok THEN rec.text = o.text
                      ELSE /\ Contains(rec.text, o.text)
                           /\ Head(rec.text) = "Error generating article: ")

\* a batch where the first completion failed and the second succeeded
C5_Witness ==
    /\ Responded("articles")
    /\ Len(outcomes) = 2
    /\ ~outcomes[1].ok
    /\ outcomes[2].ok
    /\ response.articles[2].text = outcomes[2].text

\* C6: /api/articles with the credential absent and the profile files
\* present answers with an error response carrying the credential-missing
\* message, not with a success response.
C6_MissingKeyIsAnErrorResponse ==
    (Responded("articles") /\ ValidArticlesBody(request.body)
        /\ ~apiKey /\ AllProfilesExist)
        => (response.kind = "error" /\ response.error = ApiKeyMissingError)

\* C7: /api/ideas with the credential absent, the four profile files
\* present and a valid request answers with the credential-missing error
\* (not the profile-missing or the generic one), and sends nothing to the
\* provider.
C7_IdeasMissingKey ==
    (Handling("ideas") /\ ValidIdeasBody(request.body) /\ ~apiKey /\ AllProfilesExist)
        => (/\ pc = "done"
            /\ response.kind = "error"
            /\ response.status = 500
            /\ response.error = ApiKeyMissingError
            /\ response.error # ProfilesMissingError
            /\ response.error # IdeasFailedError
            /\ sent = 0 /\ inflight = {} /\ outcomes = <<>>)

C7_Witness ==
    /\ Responded("ideas")
    /\ ValidIdeasBody(request.body)
    /\ ~apiKey
    /\ AllProfilesExist
    /\ response.error = ApiKeyMissingError

\* C8: on either endpoint, a valid request that finds a required profile
\* file missing is answered with the profile-files-missing error, also when
\* the credential is missing; the handler responds and calls no completion.
C8_MissingProfile ==
    ((\/ Handling("ideas") /\ ValidIdeasBody(request.body)
      \/ Handling("articles") /\ ValidArticlesBody(request.body))
        /\ ~AllProfilesExist)
        => (/\ pc = "done"
            /\ response.kind = "error"
            /\ response.status = 500
            /\ response.error = ProfilesMissingError
            /\ sent = 0 /\ inflight = {} /\ outcomes = <<>>
            /\ \A i \in 1..Len(attempts) : attempts[i] = 0)

\* the articles endpoint, rita.txt alone missing, the credential missing too
C8_Witness ==
    /\ Responded("articles")
    /\ ValidArticlesBody(request.body)
    /\ ~files["rita.txt"].exists
    /\ files["adi.txt"].exists
    /\ ~apiKey
    /\ response.error = ProfilesMissingError

\* C9: when the completion of /api/ideas fails with a provider error, the
\* response is the generic failure with the error's message as details,
\* and holds no ideas.
C9_IdeasProviderError ==
    (Responded("ideas") /\ outcomes # <<>> /\ ~outcomes[1].ok)
        => (/\ response.kind = "error"
            /\ response.status = 500
            /\ response.error = IdeasFailedError
            /\ response.details = outcomes[1].text
            /\ response.ideas = <<>>)

C9_Witness ==
    /\ Responded("ideas")
    /\ Len(outcomes) = 1
    /\ ~outcomes[1].ok
    /\ response.error = IdeasFailedError

\* C10: a batch is strictly sequential: at most one completion is in
\* flight, the completion for idea i is in flight only after those of all
\* ideas before it have settled, in order, and callClaude is called at most
\* once per idea, exactly once per idea by the time the batch responds.
C10_Sequential ==
    (Handling("articles") /\ ValidArticlesBody(request.body) /\ AllProfilesExist)
        => (/\ Cardinality(inflight) <= 1
            /\ \A c \in inflight :
                  /\ Len(outcomes) = c.idx - 1
                  /\ Len(articles) = c.idx - 1
                  /\ \A j \in 1..(c.idx - 1) : attempts[j] = 1
                  /\ attempts[c.idx] = 1
                  /\ \A j \in (c.idx + 1)..Len(attempts) : attempts[j] = 0
            /\ \A k \in 1..Len(outcomes) : outcomes[k].idx = k
            /\ \A i \in 1..Len(attempts) : attempts[i] <= 1
            /\ sent <= Len(request.body.items)
            /\ pc = "done" =>
                  /\ \A i \in 1..Len(request.body.items) : attempts[i] = 1
                  /\ apiKey => sent = Len(request.body.items))

\* the completion of the third idea is in flight after one failure
C10_Witness ==
    /\ Handling("articles")
    /\ pc = "articles"
    /\ \E c \in inflight : c.idx = 3
    /\ \E k \in 1..Len(outcomes) : ~outcomes[k].ok

----------------------------------------------------------------------------
(* Properties of the library functions *)

\* the call of fn has returned
Returned(fn) == unit.fn = fn /\ unit.returned

\* the voice a style value of the template names
VoiceNamed(styleValue) ==
    CASE styleValue \in {"Allison", "ALLISON", "allison"} -> "allison"
      [] styleValue \in {"Ines", "INES", "ines"} -> "ines"
      [] styleValue \in {"Rita", "RITA", "rita"} -> "rita"
      [] OTHER -> "blend"

\* the step as the Idea holds it: **name**: covers
StepText(step) == <<BOLD>> \o step.name \o <<"**: ">> \o step.covers

\* the Idea that holds the fields of the block b, the j-th of its reply
IdeaOfBlock(b, j) ==
    [id |-> <<"idea-", ToString(j)>>,
     title |-> b.title,
     style |-> VoiceNamed(b.styleValue),
     audience |-> b.audience,
     angle |-> b.angle,
     hookExample |-> b.hook,
     structure |-> [i \in 1..Len(b.steps) |-> StepText(b.steps[i])]]

\* C11: parseIdeasFromMarkdown on a reply of exactly k blocks that follow the
\* template returns exactly k Ideas, the j-th one holding the title, style,
\* audience, angle, hook and structure of the j-th block (none of them a
\* default), whatever text stands before the first idea heading.
C11_OneIdeaPerBlockInOrder ==
    (Returned("parseIdeasFromMarkdown") /\ unit.made.kind = "template") =>
        /\ Len(unit.result) = Len(unit.made.blocks)
        /\ \A j \in 1..Len(unit.made.blocks) :
              unit.result[j] = IdeaOfBlock(unit.made.blocks[j], j)

\* a reply with a preamble and MaxBlocks blocks, two of them different, has
\* been parsed
C11_Witness ==
    /\ Returned("parseIdeasFromMarkdown")
    /\ unit.made.kind = "template"
    /\ unit.made.preamble # <<>>
    /\ Len(unit.made.blocks) >= 2
    /\ unit.made.blocks[1] # unit.made.blocks[2]
    /\ Len(unit.result) = Len(unit.made.blocks)

\* the number of idea headings of a text
HeadingCount(text) == Cardinality({i \in 1..Len(text) : text[i] \in IdeaHeadings})

\* r is an Idea: the seven fields, the style one of the four
IsIdea(r) ==
    /\ DOMAIN r = {"id", "title", "style", "audience", "angle", "hookExample", "structure"}
    /\ r.style \in StyleTypes
    /\ DOMAIN r.structure = 1..Len(r.structure)

\* C12: parseIdeasFromMarkdown returns an array of Ideas for every text
\* (template replies, replies that lost a token, free texts: no input makes
\* it fail), and the empty array for a text without an idea heading.
C12_ParseIsTotal ==
    Returned("parseIdeasFromMarkdown") =>
        /\ DOMAIN unit.result = 1..Len(unit.result)
        /\ \A j \in 1..Len(unit.result) : IsIdea(unit.result[j])
        /\ HeadingCount(unit.arg) = 0 => unit.result = <<>>

\* a text that is not empty and holds no idea heading has been parsed
C12_Witness ==
    /\ Returned("parseIdeasFromMarkdown")
    /\ Len(unit.arg) = MaxTokens
    /\ HeadingCount(unit.arg) = 0
    /\ unit.result = <<>>

\* C13: the style of a parsed idea is the voice its style value names in
\* any spelling (ALLISON, allison, Allison ...), and blend when the block
\* has no style line or its style value is not one of the three names.
C13_StyleNormalized ==
    (Returned("parseIdeasFromMarkdown") /\ unit.made.kind = "style") =>
        /\ Len(unit.result) = 1
        /\ unit.result[1].style =
              IF unit.made.hasStyle THEN VoiceNamed(unit.made.styleValue) ELSE "blend"

\* the steps of a structure section that are written in bold, as the Idea
\* holds them
BoldSteps(steps) ==
    LET kept == SelectSeq(steps, LAMBDA st : st.bold)
    IN  [i \in 1..Len(kept) |-> StepText(kept[i])]

Placeholder == <<(<<"No structure provided">>)>>

\* C20: the structure of every parsed Idea is not empty; for a block whose
\* step lines are known it is the one placeholder when no line matched, and
\* otherwise exactly the lines that matched, in their order, with nothing in
\* place of the lines that did not.
C20_StructureNeverEmpty ==
    Returned("parseIdeasFromMarkdown") =>
        /\ \A j \in 1..Len(unit.result) :
              /\ Len(unit.result[j].structure) >= 1
              /\ \/ unit.result[j].structure = Placeholder
                 \/ \A i \in 1..Len(unit.result[j].structure) :
                       Head(unit.result[j].structure[i]) = BOLD
        /\ unit.made.kind = "steps" =>
              /\ Len(unit.result) = 1
              /\ unit.result[1].structure =
                    IF BoldSteps(unit.made.steps) = <<>> THEN Placeholder
                    ELSE BoldSteps(unit.made.steps)

\* a structure section with a line that is not bold between two that are
\* has been parsed into two steps
C20_Witness ==
    /\ Returned("parseIdeasFromMarkdown")
    /\ unit.made.kind = "steps"
    /\ Len(unit.made.steps) = 3
    /\ unit.made.steps[1].bold /\ ~unit.made.steps[2].bold /\ unit.made.steps[3].bold
    /\ Len(unit.result[1].structure) = 2

\* part stands in text, token for token and without a gap
Embeds(text, part) ==
    \E i \in 0..(Len(text) - Len(part)) : SubSeq(text, i + 1, i + Len(part)) = part

Voices == {"allison", "ines", "rita"}

\* the heading the blend puts over the text of a voice
StyleHeading(voice) ==
    CASE voice = "allison" -> "### Allison's Style:"
      [] voice = "ines" -> "### Ines's Style:"
      [] voice = "rita" -> "### Rita's Style:"

\* C14: the article prompt generateArticleFromIdea sends embeds the primary
\* voice text; for an idea of style allison, ines or rita it embeds that
\* voice's inspiration text and neither of the other two; for an idea of
\* style blend it embeds all three, each right under its own heading.
C14_InspirationByStyle ==
    Returned("generateArticleFromIdea") =>
        LET prompt == unit.result.user
            profs == unit.arg.profs
            style == unit.arg.idea.style
        IN  /\ Embeds(prompt, profs.adi)
            /\ style \in Voices =>
                  /\ Embeds(prompt, profs[style])
                  /\ \A other \in Voices \ {style} : ~Embeds(prompt, profs[other])
            /\ style = "blend" =>
                  \A voice \in Voices :
                      Embeds(prompt, <<StyleHeading(voice), NL>> \o profs[voice])

\* the article prompt of an idea of style rita has been built from profile
\* texts of several tokens
C14_Witness ==
    /\ Returned("generateArticleFromIdea")
    /\ unit.arg.idea.style = "rita"
    /\ Len(unit.arg.profs.rita) > 2
    /\ Embeds(unit.result.user, unit.arg.profs.rita)

\* C15: for each of the four styles and each count from 1 to 20 the idea
\* prompt holds the primary voice text verbatim and the count written out.
C15_IdeaPromptHoldsProfileAndCount ==
    Returned("buildIdeaGenerationPrompt") =>
        /\ Embeds(unit.result, unit.arg.profs.adi)
        /\ Includes(unit.result, ToString(unit.arg.numIdeas))

\* the idea prompt for the greatest count has been built
C15_Witness ==
    /\ Returned("buildIdeaGenerationPrompt")
    /\ unit.arg.numIdeas = MaxIdeas
    /\ unit.arg.style = "ines"
    /\ Includes(unit.result, "20")

\* the texts of the text blocks of a content array, in order
TextsOf(content) ==
    LET kept == SelectSeq(content, LAMBDA block : block.type = "text")
    IN  [i \in 1..Len(kept) |-> kept[i].text]

RECURSIVE StartOf(_, _)
\* where text number k starts when the texts stand one newline apart
StartOf(texts, k) ==
    IF k = 1 THEN 1 ELSE StartOf(texts, k - 1) + Len(texts[k - 1]) + 1

\* C16: callClaude returns the texts of the text blocks of the response in
\* their order with one newline between neighbours: nothing of the other
\* blocks, and the empty string when there is no text block.
C16_TextBlocksJoined ==
    Returned("callClaude") =>
        LET texts == TextsOf(unit.arg)
            n == Len(texts)
        IN  /\ n = 0 => unit.result = <<>>
            /\ n > 0 =>
                  /\ Len(unit.result) = StartOf(texts, n) + Len(texts[n]) - 1
                  /\ \A k \in 1..n :
                        SubSeq(unit.result, StartOf(texts, k),
                               StartOf(texts, k) + Len(texts[k]) - 1) = texts[k]
                  /\ \A k \in 2..n : unit.result[StartOf(texts, k) - 1] = NL

\* a response of two text blocks with another block between them has been
\* turned into its text
C16_Witness ==
    /\ Returned("callClaude")
    /\ Len(unit.arg) = 3
    /\ unit.arg[1].type = "text" /\ unit.arg[2].type # "text" /\ unit.arg[3].type = "text"
    /\ unit.arg[1].text # <<>> /\ unit.arg[3].text # <<>>
    /\ unit.result = unit.arg[1].text \o <<NL>> \o unit.arg[3].text

----------------------------------------------------------------------------
(* Properties of the completion calls *)

\* the output-token budget of the completion call generateIdeas issues
IdeasMaxTokens ==
    generateIdeas(NoProfiles, "blend", DefaultNumIdeas, TRUE, FALSE).call.max_tokens

\* C17: every completion request of article generation carries a greater
\* max_tokens than the completion request of idea generation.
C17_ArticleBudgetLarger ==
    Handling("articles") =>
        \A c \in inflight : c.request.max_tokens > IdeasMaxTokens

\* the handler of /api/ideas got past its checks, loaded the profiles and
\* built a client
IdeasAccepted ==
    /\ Handling("ideas")
    /\ StyleAllowed(StyleOrDefault(request.body))
    /\ CountAllowed(NumIdeasOrDefault(request.body))
    /\ AllProfilesExist
    /\ apiKey

\* C18: a request to /api/ideas that is accepted sends exactly one
\* completion request and calls callClaude once; the request is in flight
\* or settled, and once it has settled (rejected, or resolved with any
\* number of ideas) the handler has responded and sends nothing more.  A
\* request that is not accepted sends none.
C18_OneCompletionPerIdeasRequest ==
    Handling("ideas") =>
        /\ sent = IF IdeasAccepted THEN 1 ELSE 0
        /\ Cardinality(inflight) + Len(outcomes) = sent
        /\ IdeasAccepted => attempts = <<1>>
        /\ outcomes # <<>> => pc = "done" /\ inflight = {}

\* an accepted request whose reply held fewer ideas than it asked for has
\* been answered after its one completion
C18_Witness ==
    /\ Responded("ideas")
    /\ IdeasAccepted
    /\ Len(outcomes) = 1
    /\ outcomes[1].ok
    /\ response.kind = "ideas"
    /\ Len(response.ideas) < NumIdeasOrDefault(request.body)
    /\ sent = 1

----------------------------------------------------------------------------
(* Properties of requests handled at the same time *)

\* the outcome the provider gave for idea number i of the frame
OutcomeFor(fr, i) == CHOOSE o \in {fr.outcomes[k] : k \in 1..Len(fr.outcomes)} : o.idx = i

\* the response of the frame's request handled alone, with the directory,
\* the key and the provider's answers the frame got
AloneResponse(fr) ==
    LET body == fr.request.body
    IN  IF fr.request.endpoint = "ideas"
        THEN IF fr.outcomes = <<>> THEN ideasPOST(body, files, apiKey, FALSE).response
             ELSE IF fr.outcomes[1].ok
             THEN IdeasResponse(parseIdeasFromMarkdown(fr.outcomes[1].text))
             ELSE CatchIdeas(fr.outcomes[1].text)
        ELSE IF fr.outcomes = <<>> THEN articlesPOST(body, files, apiKey).response
             ELSE ArticlesResponse(
                      [i \in 1..Len(body.items) |->
                          IF OutcomeFor(fr, i).ok
                          THEN GeneratedArticle(body.items[i], OutcomeFor(fr, i).text)
                          ELSE ErrorArticle(body.items[i], OutcomeFor(fr, i).text)])

\* C19: whatever the interleaving of the requests handled at the same time,
\* the response of each is the response the same request gets when handled
\* alone with the same profile files, key and provider answers; until it
\* responds it has no response.
C19_RequestsIndependent ==
    \A r \in DOMAIN frames :
        /\ frames[r].pc = "done" => frames[r].response = AloneResponse(frames[r])
        /\ frames[r].pc # "done" => frames[r].response = NoResponse

\* two batches ran side by side, the second started while the first was
\* awaiting a completion, the provider answered them differently, and both
\* have responded
C19_Witness ==
    /\ DOMAIN frames = 1..MaxRequests
    /\ frames[1].pc = "done" /\ frames[2].pc = "done"
    /\ frames[1].request.endpoint = "articles" /\ frames[2].request.endpoint = "articles"
    /\ frames[2].overlap
    /\ Len(frames[1].outcomes) = 2 /\ Len(frames[2].outcomes) = 2
    /\ frames[1].outcomes[1].ok /\ ~frames[2].outcomes[1].ok
    /\ frames[1].response # frames[2].response

----------------------------------------------------------------------------
(* Properties of the parser, continued *)

\* the Idea of a block that holds the parts in present alone: each part
\* there is extracted, each part missing has its default
IdeaOfParts(present) ==
    [id |-> <<"idea-", "1">>,
     title |-> Words(<<"Leave", "as", "strategy">>),
     style |-> IF "style" \in present THEN "rita" ELSE "blend",
     audience |-> IF "audience" \in present THEN Words(<<"HR", "leaders">>)
                  ELSE <<"General audience">>,
     angle |-> IF "angle" \in present THEN Words(<<"Leave", "is", "a", "test">>) ELSE <<>>,
     hookExample |-> IF "hook" \in present THEN Words(<<"Your", "move.">>) ELSE <<>>,
     structure |-> IF "structure" \in present
                   THEN [i \in 1..Len(FourSteps) |-> StepText(FourSteps[i])]
                   ELSE Placeholder]

\* C21: a block that lacks the audience gets "General audience", one that
\* lacks the angle gets "", one that lacks the hook gets ""; whichever parts
\* a block lacks, its record is there, the parts it holds are extracted as
\* they are from the whole block, and the record of the next block is the
\* same.
C21_FieldsIndependent ==
    (Returned("parseIdeasFromMarkdown") /\ unit.made.kind = "parts") =>
        /\ Len(unit.result) = 2
        /\ unit.result[1] = IdeaOfParts(unit.made.present)
        /\ unit.result[2] = IdeaOfBlock(NextBlock, 2)

----------------------------------------------------------------------------
(* Properties of the idea prompt, continued *)

\* the heading the idea prompt of the blend puts over the text of a voice
ProfileHeading(voice) ==
    CASE voice = "allison" -> "### Allison's Profile:"
      [] voice = "ines" -> "### Ines's Profile:"
      [] voice = "rita" -> "### Rita's Profile:"

\* the guidance line of a style as it stands in the idea prompt
GuidanceLine(style) == <<"**STYLE GUIDANCE**: ">> \o styleInstructions(style)

\* C22: the idea prompt of style allison, ines or rita embeds that voice's
\* text and that style's guidance sentence, and neither of the other two
\* voices' texts nor another style's guidance; the idea prompt of style blend
\* embeds all three voices' texts, each right under its own heading, and the
\* guidance sentence of the blend.
C22_IdeaInspirationByStyle ==
    Returned("buildIdeaGenerationPrompt") =>
        LET prompt == unit.result
            profs == unit.arg.profs
            style == unit.arg.style
        IN  /\ Embeds(prompt, GuidanceLine(style))
            /\ \A other \in StyleTypes \ {style} : ~Embeds(prompt, GuidanceLine(other))
            /\ style \in Voices =>
                  /\ Embeds(prompt, profs[style])
                  /\ \A other \in Voices \ {style} : ~Embeds(prompt, profs[other])
            /\ style = "blend" =>
                  \A voice \in Voices :
                      Embeds(prompt, <<ProfileHeading(voice)>> \o profs[voice])

\* the idea prompt of style allison has been built from profile texts of
\* several tokens
C22_Witness ==
    /\ Returned("buildIdeaGenerationPrompt")
    /\ unit.arg.style = "allison"
    /\ Len(unit.arg.profs.allison) > 2
    /\ Embeds(unit.result, unit.arg.profs.allison)
    /\ Embeds(unit.result, GuidanceLine("allison"))

----------------------------------------------------------------------------
(* Properties of the ids *)

\* the idea headings of a text, in order
HeadingsOf(text) == SelectSeq(text, LAMBDA t : t \in IdeaHeadings)

\* C27: the ids of the Ideas parseIdeasFromMarkdown returns are pairwise
\* distinct; the j-th Idea comes from the j-th heading's segment and its id
\* is "idea-" followed by j, whatever number the heading carries.
C27_IdsByPosition ==
    Returned("parseIdeasFromMarkdown") =>
        /\ Len(unit.result) = HeadingCount(unit.arg)
        /\ \A j \in 1..Len(unit.result) : unit.result[j].id = <<"idea-", ToString(j)>>
        /\ \A j, k \in 1..Len(unit.result) :
              j # k => unit.result[j].id # unit.result[k].id

\* a reply whose headings carry the numbers 12 and then 7 has been parsed
\* into idea-1 and idea-2
C27_Witness ==
    /\ Returned("parseIdeasFromMarkdown")
    /\ HeadingsOf(unit.arg) = <<"##  Idea 12:", "## Idea 7:">>
    /\ Len(unit.result) = 2
    /\ unit.result[1].id = <<"idea-", "1">>
    /\ unit.result[2].id = <<"idea-", "2">>

----------------------------------------------------------------------------
(* Termination of the batch *)

\* the batch has run to its end: the response is there and a completion has
\* been attempted once for every idea of the request
BatchDone ==
    /\ pc = "done"
    /\ request.endpoint = "articles"
    /\ response.status = 200
    /\ Len(response.articles) = Len(request.body.items)
    /\ \A i \in 1..Len(request.body.items) : attempts[i] = 1

\* C23: a batch that has started (the loop awaits a completion) runs to its
\* end when every completion settles: the handler responds, and by then a
\* completion has been attempted for every idea, those after a failed one
\* included.
C23_BatchTerminates == (pc = "articles") ~> BatchDone

\* a batch is done whose first completion failed and whose second idea has
\* been attempted after that
C23_Witness ==
    /\ BatchDone
    /\ Len(request.body.items) >= 2
    /\ Len(outcomes) >= 2
    /\ ~outcomes[1].ok
    /\ outcomes[1].idx = 1
    /\ outcomes[2].idx = 2
    /\ attempts[2] = 1

----------------------------------------------------------------------------
(* The profiles of a request *)

\* the file loadAllProfiles reads for a key of ProfileData
FileOf(key) ==
    CASE key = "adi" -> "adi.txt"
      [] key = "allison" -> "allison.txt"
      [] key = "ines" -> "ines.txt"
      [] key = "rita" -> "rita.txt"

\* the request being handled has passed the validation of its endpoint
Accepted ==
    \/ /\ Handling("ideas")
       /\ StyleAllowed(StyleOrDefault(request.body))
       /\ CountAllowed(NumIdeasOrDefault(request.body))
    \/ /\ Handling("articles")
       /\ ~IdeasFieldRejected(request.body)
       /\ ~TooManyIdeas(request.body)

\* a step of the server or of an editor of the files, as C24 allows it
ProfilesStep ==
    /\ (pc = "idle" /\ Accepted' /\ AllProfilesExist) =>
          /\ reads' = Len(ProfileFiles)
          /\ \A key \in ProfileKeys : profiles'[key] = files[FileOf(key)].text
          /\ \A c \in inflight' : Embeds(c.request.user, files["adi.txt"].text)
    /\ (pc # "idle" /\ pc' # "idle") =>
          /\ profiles' = profiles
          /\ reads' = reads
    /\ pc' = "articles" =>
          \A c \in inflight' :
              c.request = generateArticleFromIdea(request'.body.items[c.idx],
                                                  profiles', apiKey').call

\* C24: an accepted request reads the four files once, when it starts, and
\* takes the texts the files hold at that moment (an edit made before the
\* request is in its prompts); from then to its response the profiles it
\* holds do not change and no file is read again, and every prompt of a
\* batch is built from those profiles, whatever is written to the files in
\* the meantime.
C24_ProfilesLoadedPerRequest == [][ProfilesStep]_vars

\* a batch awaits the completion of its second idea, of style rita: adi.txt
\* was edited before the request and rita.txt during it, and the prompt
\* holds the edited primary text and the rita text of before the edit
C24_Witness ==
    /\ pc = "articles"
    /\ profiles.adi = EditedText("adi.txt")
    /\ profiles.rita = FileText("rita.txt")
    /\ files["rita.txt"].text = EditedText("rita.txt")
    /\ \E c \in inflight :
          /\ c.idx = 2
          /\ request.body.items[2].style = "rita"
          /\ Embeds(c.request.user, EditedText("adi.txt"))
          /\ Embeds(c.request.user, FileText("rita.txt"))
          /\ ~Embeds(c.request.user, EditedText("rita.txt"))

----------------------------------------------------------------------------
(* Defaults of POST /api/ideas *)

\* the style and the count of a body when defaults stand in for omitted
\* fields alone
StyleIfOmitted(body) == IF body.style = <<>> THEN "blend" ELSE body.style[1]
CountIfOmitted(body) == IF body.n = <<>> THEN DefaultNumIdeas ELSE body.n[1]

\* the body with the defaults written out in place of its omitted fields
Explicit(body) ==
    [style |-> <<StyleIfOmitted(body)>>, n |-> <<CountIfOmitted(body)>>]

\* the handler stands where out says: at its first await or at its response
StandsAt(out) ==
    /\ response = out.response
    /\ profiles = out.profiles
    /\ inflight = out.calls
    /\ reads = out.reads
    /\ attempts = out.attempts

\* C25: a request to /api/ideas that omits n is handled as the same request
\* with n = 10, one that omits style as the same request with style blend;
\* a value that is supplied is never replaced by a default: the prompt sent
\* is the one for the supplied style and the supplied count.
C25_DefaultsForOmittedOnly ==
    (Handling("ideas") /\ outcomes = <<>>) =>
        /\ \E override \in BOOLEAN :
              StandsAt(ideasPOST(Explicit(request.body), files, apiKey, override))
        /\ \A c \in inflight :
              c.request.user =
                  buildIdeaGenerationPrompt(profiles, StyleIfOmitted(request.body),
                                            CountIfOmitted(request.body))

----------------------------------------------------------------------------
(* The number of ideas returned *)

\* C26: the response of an accepted request to /api/ideas for n ideas holds
\* at most n ideas, whatever the provider replied.
C26_AtMostRequested ==
    (Responded("ideas") /\ response.status = 200) =>
        Len(response.ideas) <= NumIdeasOrDefault(request.body)

----------------------------------------------------------------------------
(* The styles of the ideas of a batch *)

\* the article prompt of the idea with text as its inspiration context
PromptWith(idea, text) == buildArticleGenerationPrompt(idea, profiles.adi, text)

\* C28: every completion request of /api/articles is built from an idea
\* whose style is allison, ines, rita or blend, and its inspiration context
\* is neither the primary voice text nor undefined: an idea of another style
\* is not sent to the provider.
C28_OnlyKnownStylesSent ==
    Handling("articles") =>
        \A c \in inflight :
            LET idea == request.body.items[c.idx]
            IN  /\ idea.style \in StyleTypes
                /\ c.request.user # PromptWith(idea, profiles.adi)
                /\ c.request.user # PromptWith(idea, <<"undefined">>)

----------------------------------------------------------------------------
(* Properties of the page *)

\* the ids of the ideas the page shows
ShownIds == {ui.ideas[i].id : i \in 1..Len(ui.ideas)}

\* C29: every article the page shows was generated from an idea of the
\* batch of ideas the page shows: the articles of an earlier batch, arriving
\* late, are never shown next to a newer batch (or next to none).
C29_ArticlesOfShownBatch ==
    ui.articles # <<>> =>
        /\ ui.articlesOf = ui.ideasOf
        /\ \A i \in 1..Len(ui.articles) : ui.articles[i].ideaId \in ShownIds

\* what holds of the page in every state: the selection lies within the
\* ideas shown, at most one fetch of each kind is in flight, and each loading
\* flag is true exactly while a fetch of its kind is
PageInvariant ==
    /\ ui.selectedIdeaIds \subseteq ShownIds
    /\ Cardinality(Fetches(ui, "ideas")) <= 1
    /\ Cardinality(Fetches(ui, "articles")) <= 1
    /\ ui.loadingIdeas <=> Fetches(ui, "ideas") # {}
    /\ ui.loadingArticles <=> Fetches(ui, "articles") # {}

\* what holds of every step of the page: a step that starts an idea
\* generation leaves no ideas, no selection and no articles; a step taken
\* with an empty selection sends no request to /api/articles
PageStep ==
    /\ PageInvariant'
    /\ ui'.generation # ui.generation =>
          /\ ui'.ideas = <<>>
          /\ ui'.selectedIdeaIds = {}
          /\ ui'.articles = <<>>
    /\ ui.selectedIdeaIds = {} => Fetches(ui', "articles") \subseteq Fetches(ui, "articles")

\* C30: the selected ids are ids of ideas shown; starting an idea generation
\* empties ideas, selection and articles; with nothing selected no articles
\* request is sent; loadingIdeas and loadingArticles are true exactly while
\* a request of their kind is in flight, of which there is at most one.
C30_PageInvariants == PageInvariant /\ [][PageStep]_vars

\* the second idea generation is in flight while the articles request made
\* from the first batch's selection still is: both flags are true
C30_Witness ==
    /\ ui.generation = 2
    /\ ui.loadingIdeas /\ ui.loadingArticles
    /\ Cardinality(Fetches(ui, "ideas")) = 1
    /\ Cardinality(Fetches(ui, "articles")) = 1
    /\ ui.ideas = <<>> /\ ui.selectedIdeaIds = {} /\ ui.articles = <<>>

====
